---------------------------- MODULE Spec2Model ----------------------------
(***************************************************************************)
(* Klarvia-AI voice relay: the ASGI session coordinator of ai/main.py      *)
(* (token check, streaming endpoint /ws/audio-stream, batch endpoint       *)
(* /ws/audio, unknown path) with the transcript normalizer of              *)
(* voicebot/conversation.py.                                               *)
(*                                                                         *)
(* Texts are sequences of one-character strings, so that strip(), the      *)
(* normalizer's regular-expression substitution and the echo reply are     *)
(* computed the way the code computes them.  Wall-clock times are          *)
(* abstracted: a latency marker is "set" or "unset", the simulator's idle  *)
(* timer is a nondeterministic choice.  The Stage Timer calls of the       *)
(* coordinator are wrapped in try/except and do not influence its control  *)
(* flow; they are left out of the session model.                           *)
(***************************************************************************)
EXTENDS Integers, Sequences, FiniteSets, TLC

(***************************************************************************)
(* Bounds of the model (not program constants).                            *)
(***************************************************************************)
\* pieces a text given to normalize_transcript is put together from
MaxPieces == 4

\* text messages one client sends on a connection to /ws/audio of ai/server.py
MaxTurns == 2

\* largest value of time.time() during the Stage Timer's calls
MaxClock == 3

\* asynchronous inputs of one session that change its state: callbacks
\* delivered by the vendor's streaming thread plus binary frames handed to
\* the offline simulator
MaxInputs == 2

\* binary frames of one session forwarded to the vendor's transcriber
MaxVendorFrames == 1

(***************************************************************************)
(* Texts                                                                   *)
(***************************************************************************)
EmptyText == << >>

T_hi == <<"h", "i">>

T_claria == <<"C", "l", "a", "r", "i", "a">>

T_ok == <<"o", "k">>

Canonical == <<"K", "l", "a", "r", "v", "i", "a">>

EchoPrefix == <<"Y", "o", "u", " ", "s", "a", "i", "d", ":", " ">>

Apology ==
  <<"I", " ", "c", "o", "u", "l", "d", "n", "'", "t", " ", "h", "e", "a", "r",
    " ", "a", "n", "y", "t", "h", "i", "n", "g", ".", " ", "P", "l", "e", "a",
    "s", "e", " ", "t", "r", "y", " ", "a", "g", "a", "i", "n", ".">>

\* characters that are not \w for the regular expression's \b
NonWordChars == {" ", ".", ",", "'", ":", "!", "?"}

IsWordChar(c) == c \notin NonWordChars

\* re.IGNORECASE on the letters the variants are spelt with
Lower(c) ==
  CASE c = "C" -> "c" [] c = "G" -> "g" [] c = "K" -> "k" [] c = "L" -> "l"
    [] c = "A" -> "a" [] c = "R" -> "r" [] c = "V" -> "v" [] c = "I" -> "i"
    [] OTHER -> c

\* str.strip(): leading and trailing blanks removed
RECURSIVE LStrip(_)
LStrip(t) == IF t # << >> /\ Head(t) = " " THEN LStrip(Tail(t)) ELSE t

RECURSIVE RStrip(_)
RStrip(t) ==
  IF t # << >> /\ t[Len(t)] = " " THEN RStrip(SubSeq(t, 1, Len(t) - 1)) ELSE t

Strip(t) == RStrip(LStrip(t))

\* the misrecognition variants, in the order the code substitutes them
variants ==
  << <<"c", "l", "a", "r", "i", "a">>,
     <<"g", "l", "a", "r", "i", "a">>,
     <<"g", "l", "a", "r", "v", "i", "a">>,
     <<"c", "l", "a", "r", "v", "i", "a">>,
     <<"c", "l", "a", "v", "i", "a">>,
     <<"k", "l", "a", "r", "i", "a">>,
     <<"k", "l", "a", "v", "i", "a">> >>

\* faulty variant: the pattern without its \b anchors
WordBoundary_Anywhere(t, p) == TRUE

\* \b at offset p (between t[p] and t[p+1])
WordBoundary(t, p) ==
  LET before == p >= 1 /\ IsWordChar(t[p])
      after  == p + 1 <= Len(t) /\ IsWordChar(t[p + 1])
  IN  before # after

\* rf"\b{wrong}\b" matches at index i, ignoring case
MatchAt(t, wrong, i) ==
  /\ i + Len(wrong) - 1 <= Len(t)
  /\ \A k \in 1..Len(wrong) : Lower(t[i + k - 1]) = wrong[k]
  /\ WordBoundary(t, i - 1)
  /\ WordBoundary(t, i + Len(wrong) - 1)

\* faulty variant: re.sub(..., count=1), only the leftmost match replaced
RECURSIVE SubFrom_FirstOnly(_, _, _)
SubFrom_FirstOnly(t, wrong, i) ==
  IF i > Len(t) THEN << >>
  ELSE IF MatchAt(t, wrong, i)
       THEN Canonical \o SubSeq(t, i + Len(wrong), Len(t))
       ELSE <<t[i]>> \o SubFrom_FirstOnly(t, wrong, i + 1)

\* re.sub: leftmost, non-overlapping matches replaced by "Klarvia"
RECURSIVE SubFrom(_, _, _)
SubFrom(t, wrong, i) ==
  IF i > Len(t) THEN << >>
  ELSE IF MatchAt(t, wrong, i)
       THEN Canonical \o SubFrom(t, wrong, i + Len(wrong))
       ELSE <<t[i]>> \o SubFrom(t, wrong, i + 1)

\* for wrong in variants: out = re.sub(...); `u` is the text after the
\* substitution of variants[k], the next pass works on it
RECURSIVE SubAll(_, _)
SubAll(t, k) ==
  IF k > Len(variants) THEN t
  ELSE CHOOSE out \in {SubAll(u, k + 1) : u \in {SubFrom(t, variants[k], 1)}} : TRUE

normalize_transcript(text) == IF text = << >> THEN text ELSE SubAll(text, 1)


(***************************************************************************)
(* State                                                                   *)
(***************************************************************************)
VARIABLES
  environ,          \* os.environ of the process: WS_AUTH_TOKEN, FAKE_STT, ASSEMBLYAI_API_KEY
  hc,               \* the Reply adapter (voicebot.conversation): its configuration, the
                    \* position of the current handle_conversation call and what it did
  chat,             \* the POST /chat handler: its position, the request's text, the
                    \* reply so far and the response
  pipeline_state,   \* monitoring.pipeline_state: stage name -> who wrote its start
                    \* and its end (0: nobody)
  output_mp3,       \* the file <tmp>/klarvia_voicebot/output.mp3: the session whose reply
                    \* it holds as audio (0: empty)
  messages,         \* _CONVO.messages: the roles and sessions of the chat history
  handlers,         \* two handlers running at once in the process: where each is
                    \* and what it got from the shared state
  nt,               \* normalize_transcript called on its own: the text given, the text
                    \* returned, and the text returned for that one
  timer,            \* the Stage Timer (voicebot.monitoring) called on its own: the
                    \* store, the clock, the last call and what it returned
  srv,              \* one connection to /ws/audio of ai/server.py: the handler's
                    \* position, the message in hand and what was sent
  imports,          \* which optional imports succeeded: assemblyai, helpers (voicebot.conversation
                    \* and voicebot.voice_utils), monitoring
  cred_failed,      \* an earlier session of this process ended on a missing STT credential
  pc,               \* position of the session handler `app`
  path,             \* scope["path"]
  supplied,         \* query.get("token", "")
  sent,             \* everything passed to send(), in order
  outbound,         \* the callback-to-WS queue
  enqueued,         \* every message put on the queue in this session, in the order of the puts
  got_final_text,
  fake_stt,
  fallback_to_fake,
  rt,               \* the vendor transcriber: "none", "open", "ended", "closed"
  rt_audio,         \* number of binary frames passed to rt.send_audio in this session
  fake_task,        \* the simulator task: "none", "running", "done", "cancelled"
  audio_q,          \* byte counts handed to the simulator
  client_done,
  event,            \* the inbound event of the current loop iteration: "none" (unset, or
                    \* the handler is past the receive loop), "failed" (receive() raised),
                    \* "bytes", "disconnect", or the text frame received
  ended_by,         \* how the Listening loop was left: "", "stop" or "disconnect"
  built_count,      \* simulator: words revealed
  ingested_ms,      \* simulator: milliseconds of audio ingested
  t_first_byte,     \* latency markers: set or not
  t_first_partial,
  t_final_seen,
  flush_i,          \* iterations done of the post-stop flush loop
  chunks,           \* batch endpoint: number of binary frames buffered
  transcript,       \* batch endpoint: the transcript
  reply,
  adapter_out,      \* what handle_conversation returned to the coordinator ("" if it raised
                    \* or was not called)
  audio_bytes,
  model_calls,      \* invocations of the Reply adapter in this session
  tts_calls,        \* invocations of the TTS adapter in this session
  frames,           \* binary frames handed to the simulator so far in this session
  vendor_events     \* vendor callbacks delivered so far in this session

\* state shared by all sessions of the process, and the handlers using it
sharedVars == <<pipeline_state, output_mp3, messages, handlers>>

\* library functions called on their own, and the handler of ai/server.py
libVars == <<nt, timer, srv>>

procVars == <<environ, imports, hc, chat, sharedVars, libVars>>

sttVars == <<outbound, got_final_text, fake_stt, fallback_to_fake, rt, fake_task,
             audio_q, client_done, ended_by, built_count, ingested_ms,
             t_first_byte, t_first_partial, t_final_seen, flush_i>>

stageVars == <<chunks, transcript, reply, adapter_out, audio_bytes, model_calls, tts_calls>>

vars == <<environ, imports, hc, chat, pipeline_state, output_mp3, messages, handlers,
          nt, timer, srv,
          cred_failed, pc, path, supplied, sent, outbound, enqueued,
          rt_audio,
          got_final_text, fake_stt, fallback_to_fake, rt, fake_task, audio_q,
          client_done, event, ended_by, built_count, ingested_ms, t_first_byte,
          t_first_partial, t_final_seen, flush_i, chunks, transcript, reply, adapter_out,
          audio_bytes, model_calls, tts_calls, frames, vendor_events>>

(***************************************************************************)
(* Outbound frames and queue messages                                      *)
(***************************************************************************)
Ev(type, text, info, code) == [type |-> type, text |-> text, info |-> info, code |-> code]

AcceptEv == Ev("accept", << >>, "", 0)

CloseEv(code) == Ev("close", << >>, "", code)

ErrorEv(message) == Ev("error", << >>, message, 0)

DebugEv(stage) == Ev("debug", << >>, stage, 0)

TextEv(type, text) == Ev(type, text, "", 0)

\* a binary frame; `audio` stands for the bytes synthesized from that text
BinaryEv(audio) == Ev("binary", audio, "", 0)

CLOSE_NORMAL == 1000

CLOSE_UNKNOWN_PATH == 1008

CLOSE_INTERNAL == 1011

CLOSE_UNAUTHORIZED == 4401

(***************************************************************************)
(* Inputs                                                                  *)
(***************************************************************************)
STREAM_PATH == "/ws/audio-stream"

BATCH_PATH == "/ws/audio"

Paths == {STREAM_PATH, BATCH_PATH, "/ws/other"}

\* "gen" stands for the value secrets.token_urlsafe(16) produced at import
Tokens == {"", "srv", "gen"}

ProcessEnvs ==
  [WS_AUTH_TOKEN : {"", "srv"}, FAKE_STT : BOOLEAN, ASSEMBLYAI_API_KEY : BOOLEAN]

\* voicebot.conversation itself imports voicebot.monitoring
ProcessImports ==
  {i \in [assemblyai : BOOLEAN, helpers : BOOLEAN, monitoring : BOOLEAN] :
     i.helpers => i.monitoring}

(***************************************************************************)
(* The Reply adapter's configuration (voicebot/conversation.py)            *)
(***************************************************************************)
\* the variants of handle_conversation, in the order it tries them: local
\* command, HTTP endpoint, in-process function, hosted language model
HcVariants == <<"cmd", "url", "shim", "llm">>

\* cmd: KLARVIA_MODEL_CMD set; url: AI_CHAT_URL set; requests: the package
\* was imported; shim: klarvia_voice_bot can be imported; key: OPENAI_API_KEY
\* set; sdk: the openai package was imported
HcConfigs ==
  [cmd : BOOLEAN, url : BOOLEAN, requests : BOOLEAN, shim : BOOLEAN,
   key : BOOLEAN, sdk : BOOLEAN]

NoVariants ==
  [cmd |-> FALSE, url |-> FALSE, requests |-> FALSE, shim |-> FALSE,
   key |-> FALSE, sdk |-> FALSE]

\* no call in progress.  res: what each variant did in the current call
\* ("skip": not attempted, "fail", "empty", "text"); runs: how often each was
\* executed in the current call; convo: the _CONVO singleton exists; world:
\* what each variant did when it last ran ("unknown": it has not run); fixed:
\* the variants are functions of the text, a second run repeats the first
HcFresh(cfg) ==
  [cfg |-> cfg, pc |-> "idle", transcript |-> << >>,
   res |-> [v \in {"cmd", "url", "shim", "llm"} |-> "skip"],
   runs |-> [v \in {"cmd", "url", "shim", "llm"} |-> 0],
   out |-> << >>, raised |-> FALSE, convo |-> FALSE,
   world |-> [v \in {"cmd", "url", "shim", "llm"} |-> "unknown"], fixed |-> FALSE]

\* no /chat request in progress.  has_reply: `reply is not None`; status: the
\* HTTP status sent (0: none yet); ref: what handle_conversation gave for the
\* same text when called directly afterwards
ChatIdle ==
  [pc |-> "idle", text |-> << >>, has_reply |-> FALSE, reply |-> << >>,
   status |-> 0, ref |-> << >>, ref_raised |-> FALSE]

(***************************************************************************)
(* Process-wide state used by every session                                *)
(***************************************************************************)
\* the two handlers that run at once
Sessions == {1, 2}

\* the stage names every session uses
Stages == {"STT", "Model", "TTS"}

\* a stage record nobody has written
NoRecord == [start |-> 0, end |-> 0]

\* the history a new ConversationManager starts with
SystemPrompt == <<[role |-> "system", session |-> 0]>>

\* a handler that has not started its pipeline.  request: the messages it sent
\* to the hosted model; snapshot: the debug_report() it sent; audio: the bytes
\* it read back from output.mp3; frame: the binary frame it sent
HandlerFresh ==
  [pc |-> "start", request |-> << >>, snapshot |-> [st \in Stages |-> NoRecord],
   audio |-> 0, frame |-> 0]

SharedFresh ==
  /\ pipeline_state = [st \in Stages |-> NoRecord]
  /\ output_mp3 = 0
  /\ messages = SystemPrompt
  /\ handlers = [s \in Sessions |-> HandlerFresh]

(***************************************************************************)
(* Library functions called on their own                                   *)
(***************************************************************************)
\* normalize_transcript not called yet on the text x
NormStart(x) == [pc |-> "given", x |-> x, y |-> << >>, z |-> << >>]

\* None
Null == << >>

\* the Stage Timer after import: pipeline_state = {}, held as the set of its
\* (key, record) items; `clock` is what time.time() returned last, `prior`
\* the record that stood under the call's name when it was made
TimerFresh ==
  [store |-> {}, clock |-> 1, call |-> "none", name |-> "", success |-> Null,
   msg |-> Null, returned |-> Null, raised |-> FALSE, prior |-> Null,
   snapshot |-> {}]

\* ws_audio of ai/server.py before the connection is looked at
SrvFresh == [pc |-> "connect", token |-> "", turn |-> 0, msg |-> "none", sent |-> << >>]

LibIdle ==
  /\ nt = NormStart(<< >>)
  /\ timer = TimerFresh
  /\ srv = SrvFresh

(***************************************************************************)
(* Session start                                                           *)
(***************************************************************************)
\* module level: os.getenv("WS_AUTH_TOKEN", "") or secrets.token_urlsafe(16)
WS_TOKEN == IF environ.WS_AUTH_TOKEN # "" THEN environ.WS_AUTH_TOKEN ELSE "gen"

\* per connection: os.getenv("WS_AUTH_TOKEN", "") or _WS_TOKEN
ws_token == IF environ.WS_AUTH_TOKEN # "" THEN environ.WS_AUTH_TOKEN ELSE WS_TOKEN

FreshSession ==
  /\ pc = "connect"
  /\ path = ""
  /\ supplied = ""
  /\ sent = << >>
  /\ outbound = << >>
  /\ enqueued = << >>
  /\ got_final_text = << >>
  /\ fake_stt = FALSE
  /\ fallback_to_fake = FALSE
  /\ rt = "none"
  /\ rt_audio = 0
  /\ fake_task = "none"
  /\ audio_q = << >>
  /\ client_done = FALSE
  /\ event = "none"
  /\ ended_by = ""
  /\ built_count = 0
  /\ ingested_ms = 0
  /\ t_first_byte = FALSE
  /\ t_first_partial = FALSE
  /\ t_final_seen = FALSE
  /\ flush_i = 0
  /\ chunks = 0
  /\ transcript = << >>
  /\ reply = << >>
  /\ adapter_out = << >>
  /\ audio_bytes = << >>
  /\ model_calls = 0
  /\ tts_calls = 0
  /\ frames = 0
  /\ vendor_events = 0

Init ==
  /\ environ \in ProcessEnvs
  /\ imports \in ProcessImports
  /\ hc = HcFresh(NoVariants)
  /\ chat = ChatIdle
  /\ SharedFresh
  /\ LibIdle
  /\ cred_failed = FALSE
  /\ FreshSession

\* faulty variant: a connection that supplies no token is let through
TokenMismatch_EmptyOk(tok) == ws_token # "" /\ tok # "" /\ tok # ws_token

\* `if ws_token:` and `supplied != ws_token`
TokenMismatch(tok) == ws_token # "" /\ tok # ws_token

\* app, WebSocket scope: query parsing and the token check
Connect ==
  /\ pc = "connect"
  /\ \E p \in Paths, tok \in Tokens :
       /\ path' = p
       /\ supplied' = tok
       /\ IF TokenMismatch(tok)
          THEN /\ sent' = <<AcceptEv, ErrorEv("Unauthorized"), CloseEv(CLOSE_UNAUTHORIZED)>>
               /\ pc' = "closed"
          ELSE /\ sent' = sent
               /\ pc' = "route"
  /\ UNCHANGED <<procVars, rt_audio, event, enqueued, cred_failed, sttVars, stageVars, frames, vendor_events>>

\* app: a path that is neither audio endpoint
UnknownPath ==
  /\ pc = "route"
  /\ path \notin {STREAM_PATH, BATCH_PATH}
  /\ sent' = sent \o <<AcceptEv, ErrorEv("Unknown WebSocket path"), CloseEv(CLOSE_UNKNOWN_PATH)>>
  /\ pc' = "closed"
  /\ UNCHANGED <<procVars, rt_audio, event, enqueued, cred_failed, path, supplied, sttVars, stageVars, frames, vendor_events>>


(***************************************************************************)
(* Streaming endpoint /ws/audio-stream: STT selection                      *)
(***************************************************************************)
\* outcomes of aai.RealtimeTranscriber(...) followed by connect()
ConnectOutcomes == {"ok", "fail"}

\* the session handler has returned or raised: the transcriber is released
\* only by the finally clause that guards the Listening loop
SetupError(message) ==
  /\ sent' = sent \o <<AcceptEv, ErrorEv(message), CloseEv(CLOSE_INTERNAL)>>
  /\ pc' = "closed"
  /\ UNCHANGED <<fake_stt, rt>>

\* `aai.settings.api_key = api_key` with aai = None: AttributeError, outside
\* every try block of the handler
SetupRaises ==
  /\ sent' = sent \o <<AcceptEv>>
  /\ pc' = "crashed"
  /\ UNCHANGED <<fake_stt, rt>>

StreamSetup ==
  /\ pc = "route"
  /\ path = STREAM_PATH
  /\ LET fake == environ.FAKE_STT
         aai  == imports.assemblyai /\ ~fake
     IN  IF ~environ.ASSEMBLYAI_API_KEY /\ ~fake
         THEN SetupError("ASSEMBLYAI_API_KEY missing")
         ELSE IF fake
         THEN /\ sent' = sent \o <<AcceptEv>>
              /\ fake_stt' = TRUE
              /\ pc' = "drain"
              /\ rt' = rt
         ELSE IF ~aai
         THEN SetupRaises
         ELSE \E outcome \in ConnectOutcomes :
                IF outcome = "ok"
                THEN /\ sent' = sent \o <<AcceptEv>>
                     /\ rt' = "open"
                     /\ pc' = "drain"
                     /\ fake_stt' = fake_stt
                ELSE SetupError("AAI connect failed")
  /\ UNCHANGED <<procVars, rt_audio, event, enqueued, cred_failed, path, supplied, outbound, got_final_text,
                 fallback_to_fake, fake_task, audio_q, client_done, ended_by, built_count,
                 ingested_ms, t_first_byte, t_first_partial, t_final_seen, flush_i,
                 stageVars, frames, vendor_events>>

(***************************************************************************)
(* The vendor's callback thread                                            *)
(***************************************************************************)
\* texts the vendor may deliver (before strip())
PartialTexts == {T_hi \o <<" ">>}

FinalTexts == {<< >>, T_hi \o <<" ">>, T_claria}

ERR_DEPRECATED == "model deprecated"

ERR_OTHER == "connection lost"

VendorErrors == {ERR_DEPRECATED, ERR_OTHER}

\* "deprecated" in low or ("universal" in low and "use" in low)
IsDeprecation(msg) == msg = ERR_DEPRECATED

InputsLeft == frames + vendor_events < MaxInputs

VendorActive == rt \in {"open", "ended"} /\ InputsLeft

\* Queue.put: the messages this step appends to the queue
Put == SubSeq(outbound', Len(outbound) + 1, Len(outbound'))

\* _on_data, message_type PartialTranscript
OnPartial(raw) ==
  LET text == Strip(raw)
      first == ~t_first_partial
  IN  IF text = << >>
      THEN UNCHANGED <<outbound, t_first_partial>>
      ELSE /\ t_first_partial' = TRUE
           /\ outbound' = outbound
                \o (IF first /\ t_first_byte THEN <<DebugEv("stt_first_partial")>> ELSE << >>)
                \o <<TextEv("partial", text)>>

\* the messages _on_data queues for a FinalTranscript carrying `text`
FinalMessages(text) == IF text = << >> THEN << >> ELSE <<TextEv("final", text)>>

\* _on_data, message_type FinalTranscript
OnFinal(raw) ==
  LET text == Strip(raw)
  IN  /\ t_final_seen' = (t_final_seen \/ text # << >>)
      /\ outbound' = outbound \o FinalMessages(text)

VendorPartial ==
  /\ VendorActive
  /\ \E raw \in PartialTexts : OnPartial(raw)
  /\ vendor_events' = vendor_events + 1
  /\ enqueued' = enqueued \o Put
  /\ UNCHANGED <<procVars, rt_audio, event, cred_failed, pc, path, supplied, sent, got_final_text,
                 fake_stt, fallback_to_fake, rt, fake_task, audio_q, client_done, ended_by,
                 built_count, ingested_ms, t_first_byte, t_final_seen, flush_i,
                 stageVars, frames>>

VendorFinal ==
  /\ VendorActive
  /\ \E raw \in FinalTexts : OnFinal(raw)
  /\ vendor_events' = vendor_events + 1
  /\ enqueued' = enqueued \o Put
  /\ UNCHANGED <<procVars, rt_audio, event, cred_failed, pc, path, supplied, sent, got_final_text,
                 fake_stt, fallback_to_fake, rt, fake_task, audio_q, client_done, ended_by,
                 built_count, ingested_ms, t_first_byte, t_first_partial, flush_i,
                 stageVars, frames>>

\* _on_error
VendorError ==
  /\ VendorActive
  /\ \E msg \in VendorErrors :
       /\ outbound' = outbound \o <<ErrorEv(msg)>>
            \o (IF IsDeprecation(msg) THEN <<DebugEv("stt_fallback")>> ELSE << >>)
       /\ fallback_to_fake' = (fallback_to_fake \/ IsDeprecation(msg))
  /\ vendor_events' = vendor_events + 1
  /\ enqueued' = enqueued \o Put
  /\ UNCHANGED <<procVars, rt_audio, event, cred_failed, pc, path, supplied, sent, got_final_text,
                 fake_stt, rt, fake_task, audio_q, client_done, ended_by, built_count,
                 ingested_ms, t_first_byte, t_first_partial, t_final_seen, flush_i,
                 stageVars, frames>>


(***************************************************************************)
(* The offline simulator (_fake_emitter)                                   *)
(***************************************************************************)
W_Hello == <<"H", "e", "l", "l", "o">>

W_I == <<"I">>

W_have == <<"h", "a", "v", "e">>

W_a == <<"a">>

W_headache == <<"h", "e", "a", "d", "a", "c", "h", "e">>

words == <<W_Hello, Canonical, W_I, W_have, W_a, W_headache>>

per_word_ms == 250

\* (n / 2.0) / 16000.0 * 1000.0, exact for the frame sizes of FrameSizes
bytes_to_ms(n) == n \div 32

\* faulty variant: the slice stops one word early
RECURSIVE JoinWords_OneShort(_, _)
JoinWords_OneShort(ws, k) ==
  IF k <= 1 THEN << >>
  ELSE IF k = 2 THEN ws[1]
  ELSE JoinWords_OneShort(ws, k - 1) \o <<" ">> \o ws[k - 1]

\* " ".join(ws[:k])
RECURSIVE JoinWords(_, _)
JoinWords(ws, k) ==
  IF k = 0 THEN << >>
  ELSE IF k = 1 THEN ws[1]
  ELSE JoinWords(ws, k - 1) \o <<" ">> \o ws[k]

Min(a, b) == IF a <= b THEN a ELSE b

\* faulty variant: final as soon as all words are unlocked
Finalizes_AllWords(built, done, idle) == built >= Len(words)

\* all_words and (done_evt.is_set() or idle >= idle_final_ms)
Finalizes(built, done, idle) == built >= Len(words) /\ (done \/ idle)

\* One iteration of the emitter's loop.  `take`: the iteration got a byte
\* count from audio_q (otherwise wait_for timed out after 50 ms); `idle`:
\* at least 0.3 s passed since bytes were last seen.  The except clause of
\* the emitter is reached only if Queue.put raises, which it does not for
\* an unbounded queue.
FakeEmitterStep ==
  /\ fake_task = "running"
  /\ \E take \in BOOLEAN, idle \in BOOLEAN :
       /\ take => audio_q # << >>
       /\ ~take => audio_q = << >>
       /\ LET n      == IF take THEN Head(audio_q) ELSE 0
              ing    == IF n > 0 THEN ingested_ms + bytes_to_ms(n) ELSE ingested_ms
              allow  == Min(ing \div per_word_ms, Len(words))
              built  == IF allow > built_count THEN allow ELSE built_count
              first  == allow > built_count /\ ~t_first_partial /\ t_first_byte
              parts  == IF allow > built_count
                        THEN (IF first THEN <<DebugEv("stt_first_partial")>> ELSE << >>)
                               \o <<TextEv("partial", JoinWords(words, built))>>
                        ELSE << >>
              fin    == Finalizes(built, client_done, idle)
          IN  /\ idle => n = 0
              /\ audio_q' = IF take THEN Tail(audio_q) ELSE audio_q
              /\ ingested_ms' = ing
              /\ built_count' = built
              /\ t_first_partial' = (t_first_partial \/ first)
              /\ t_final_seen' = (t_final_seen \/ fin)
              /\ outbound' = outbound \o parts
                   \o (IF fin THEN <<TextEv("final", JoinWords(words, Len(words)))>> ELSE << >>)
              /\ fake_task' = IF fin THEN "done" ELSE "running"
  /\ enqueued' = enqueued \o Put
  /\ UNCHANGED <<procVars, rt_audio, event, cred_failed, pc, path, supplied, sent, got_final_text,
                 fake_stt, fallback_to_fake, rt, client_done, ended_by, t_first_byte, flush_i,
                 stageVars, frames, vendor_events>>

(***************************************************************************)
(* Streaming endpoint: the Listening loop                                  *)
(***************************************************************************)
\* the final transcript the coordinator keeps when the Listening loop
\* drains a `final` message: normalized when the normalizer was imported
DrainedFinal(text) ==
  IF imports.helpers /\ text # << >> THEN normalize_transcript(text) ELSE text

\* got_final_text = final_text or got_final_text
KeepFinal(new, old) == IF new # << >> THEN new ELSE old

\* faulty variant: the newest message is taken first
QueueGet_Newest(q) == q[Len(q)]

\* Queue.get_nowait() on a non-empty queue: the oldest message
QueueGet(q) == Head(q)

\* one iteration of the inner loop: outbound.get_nowait() returned msg
DrainOne ==
  /\ pc = "drain"
  /\ outbound # << >>
  /\ LET msg  == QueueGet(outbound)
         norm == DrainedFinal(msg.text)
     IN  /\ outbound' = Tail(outbound)
         /\ IF msg.type = "final"
            THEN /\ got_final_text' = KeepFinal(norm, got_final_text)
                 /\ sent' = sent
                      \o (IF norm # msg.text THEN <<Ev("debug", msg.text, "normalize", 0)>> ELSE << >>)
                      \o <<msg>>
            ELSE /\ got_final_text' = got_final_text
                 /\ sent' = sent \o <<msg>>
  /\ UNCHANGED <<procVars, rt_audio, event, enqueued, cred_failed, pc, path, supplied, fake_stt, fallback_to_fake,
                 rt, fake_task, audio_q, client_done, ended_by, built_count, ingested_ms,
                 t_first_byte, t_first_partial, t_final_seen, flush_i, stageVars,
                 frames, vendor_events>>

\* outbound.get_nowait() raised Empty: go on to receive()
DrainEmpty ==
  /\ pc = "drain"
  /\ outbound = << >>
  /\ pc' = "receive"
  /\ event' = "none"
  /\ UNCHANGED <<procVars, rt_audio, enqueued, cred_failed, path, supplied, sent, sttVars, stageVars,
                 frames, vendor_events>>

\* sizes in bytes of the binary frames a client sends: empty, 250 ms, 750 ms,
\* 1500 ms
FrameSizes == {0, 8000, 24000, 48000}

\* faulty variant: the fallback flag is not looked at
UsesSimulator_NoFallback == fake_stt

\* `if fake_stt or fallback_to_fake`: the frame goes to the simulator
UsesSimulator == fake_stt \/ fallback_to_fake

\* receive() returned a binary frame of n bytes
ReceiveBytes ==
  /\ pc = "receive"
  /\ \E n \in FrameSizes :
       IF UsesSimulator
       THEN /\ frames + vendor_events < MaxInputs
            /\ audio_q' = Append(audio_q, n)
            /\ fake_task' = IF fake_task = "none" THEN "running" ELSE fake_task
            /\ frames' = frames + 1
            /\ rt_audio' = rt_audio
       ELSE /\ rt_audio < MaxVendorFrames
            /\ rt_audio' = rt_audio + 1                   \* rt.send_audio(bytes)
            /\ UNCHANGED <<audio_q, fake_task, frames>>
  /\ t_first_byte' = TRUE
  /\ pc' = "drain"
  /\ event' = "bytes"
  /\ UNCHANGED <<procVars, enqueued, cred_failed, path, supplied, sent, outbound, got_final_text,
                 fake_stt, fallback_to_fake, rt, client_done, ended_by, built_count, ingested_ms,
                 t_first_partial, t_final_seen, flush_i, stageVars, vendor_events>>

\* the text frames a client may send: the two stop markers, JSON of another
\* type, text that is not JSON, text that does not start with "{"
ControlFrames == {"stop", "end", "other_type", "bad_json", "no_brace"}

\* faulty variant: every JSON frame that carries a type ends the input
IsStop_AnyType(frame) == frame \in {"stop", "end", "other_type"}

\* payload.get("type") in ("stop", "end")
IsStop(frame) == frame \in {"stop", "end"}

\* receive() returned a text frame that is no stop marker: ignored
ReceiveIgnoredText ==
  /\ pc = "receive"
  /\ \E frame \in ControlFrames : ~IsStop(frame) /\ event' = frame
  /\ pc' = "drain"
  /\ UNCHANGED <<procVars, rt_audio, enqueued, cred_failed, path, supplied, sent, sttVars, stageVars,
                 frames, vendor_events>>

\* receive() raised: event = None, the loop continues
ReceiveFails ==
  /\ pc = "receive"
  /\ pc' = "drain"
  /\ event' = "failed"
  /\ UNCHANGED <<procVars, rt_audio, enqueued, cred_failed, path, supplied, sent, sttVars, stageVars,
                 frames, vendor_events>>

\* faulty variant: a disconnect ends the session at once, without a reply
AfterListening_DisconnectAborts(how) == IF how = "disconnect" THEN "audio" ELSE "wait_fake"

\* `break`: where the handler goes on when the Listening loop is left by a
\* stop frame or by a disconnect
AfterListening(how) == "wait_fake"

\* receive() returned a stop/end frame: rt.end(), client_done.set(), break
ReceiveStop ==
  /\ pc = "receive"
  /\ \E frame \in ControlFrames : IsStop(frame) /\ event' = frame
  /\ rt' = IF rt = "open" THEN "ended" ELSE rt
  /\ client_done' = TRUE
  /\ ended_by' = "stop"
  /\ pc' = AfterListening("stop")
  /\ UNCHANGED <<procVars, rt_audio, enqueued, cred_failed, path, supplied, sent, outbound, got_final_text,
                 fake_stt, fallback_to_fake, fake_task, audio_q, built_count,
                 ingested_ms, t_first_byte, t_first_partial, t_final_seen, flush_i,
                 stageVars, frames, vendor_events>>

\* receive() returned websocket.disconnect: client_done.set(), break
ReceiveDisconnect ==
  /\ pc = "receive"
  /\ client_done' = TRUE
  /\ ended_by' = "disconnect"
  /\ pc' = AfterListening("disconnect")
  /\ event' = "disconnect"
  /\ UNCHANGED <<procVars, rt_audio, enqueued, cred_failed, path, supplied, sent, outbound, got_final_text,
                 fake_stt, fallback_to_fake, rt, fake_task, audio_q, built_count,
                 ingested_ms, t_first_byte, t_first_partial, t_final_seen, flush_i,
                 stageVars, frames, vendor_events>>


(***************************************************************************)
(* Streaming endpoint: after the stop frame or the disconnect              *)
(***************************************************************************)
\* asyncio.wait_for(fake_task, timeout=0.75) when there is a simulator task:
\* it has finished
WaitFakeDone ==
  /\ pc = "wait_fake"
  /\ fake_task \in {"none", "done"}
  /\ pc' = "flush"
  /\ event' = "none"
  /\ UNCHANGED <<procVars, rt_audio, enqueued, cred_failed, path, supplied, sent, sttVars, stageVars,
                 frames, vendor_events>>

\* ... or the 0.75 s pass and wait_for cancels it.  An emitter iteration
\* lasts at most 60 ms, so the timeout outlasts the iterations that empty
\* audio_q: it fires only on an emitter that has nothing left to ingest and
\* has not unlocked all words.
WaitFakeTimeout ==
  /\ pc = "wait_fake"
  /\ fake_task = "running"
  /\ audio_q = << >>
  /\ built_count < Len(words)
  /\ fake_task' = "cancelled"
  /\ pc' = "flush"
  /\ event' = "none"
  /\ UNCHANGED <<procVars, rt_audio, enqueued, cred_failed, path, supplied, sent, outbound, got_final_text,
                 fake_stt, fallback_to_fake, rt, audio_q, client_done, ended_by, built_count,
                 ingested_ms, t_first_byte, t_first_partial, t_final_seen, flush_i,
                 stageVars, frames, vendor_events>>

\* for _ in range(20)
FlushLimit == 20

\* the final transcript the coordinator keeps when the post-stop flush
\* drains a `final` message
FlushedFinal(text) == text

FlushOne ==
  /\ pc = "flush"
  /\ flush_i < FlushLimit
  /\ outbound # << >>
  /\ LET msg == QueueGet(outbound)
     IN  /\ outbound' = Tail(outbound)
         /\ got_final_text' = IF msg.type = "final"
                              THEN KeepFinal(FlushedFinal(msg.text), got_final_text)
                              ELSE got_final_text
         /\ sent' = sent \o <<msg>>
  /\ flush_i' = flush_i + 1
  /\ UNCHANGED <<procVars, rt_audio, event, enqueued, cred_failed, pc, path, supplied, fake_stt, fallback_to_fake,
                 rt, fake_task, audio_q, client_done, ended_by, built_count, ingested_ms,
                 t_first_byte, t_first_partial, t_final_seen, stageVars, frames,
                 vendor_events>>

\* the flush loop is left on Empty or after its 20 iterations
FlushEnd ==
  /\ pc = "flush"
  /\ (outbound = << >> \/ flush_i >= FlushLimit)
  /\ pc' = "model"
  /\ UNCHANGED <<procVars, rt_audio, event, enqueued, cred_failed, path, supplied, sent, sttVars, stageVars,
                 frames, vendor_events>>

(***************************************************************************)
(* Reply and synthesis stages                                              *)
(***************************************************************************)
\* what handle_conversation may do: raise, return "", return a text
ReplyOutcomes == {"raise", "empty", "text"}

AdapterText(outcome) == IF outcome = "text" THEN T_ok ELSE << >>

\* what generate_voice followed by reading the file may yield
TTSOutcomes == {"raise", "empty", "bytes"}

\* the audio read back for `text`
Synthesized(outcome, text) ==
  IF outcome = "bytes" /\ Strip(text) # << >> THEN text ELSE << >>

\* streaming: `if got_final_text:` guards the Model stage
StreamCallsModel == got_final_text # << >> /\ imports.helpers

\* streaming, lines 473-474
StreamReplyText(r, t) == IF r = << >> /\ t # << >> THEN EchoPrefix \o t ELSE r

\* batch, lines 621-624
BatchReplyText(r, t) ==
  IF r = << >> /\ t # << >> THEN EchoPrefix \o t
  ELSE IF r = << >> /\ t = << >> THEN Apology
  ELSE r

\* `if reply and _generate_voice is not None`
CallsTTS(r) == r # << >> /\ imports.helpers

\* faulty variant: a session without audio reports it before closing
FinishFrames_ErrorOnNoAudio(audio) ==
  (IF audio # << >> THEN <<BinaryEv(audio), DebugEv("tts_bytes")>>
   ELSE <<ErrorEv("tts")>>)
    \o <<CloseEv(CLOSE_NORMAL)>>

\* faulty variant: the binary frame is sent whether or not there is audio
FinishFrames_Unconditional(audio) ==
  <<BinaryEv(audio), DebugEv("tts_bytes"), CloseEv(CLOSE_NORMAL)>>

\* the frames that end a session from its audio bytes on
FinishFrames(audio) ==
  (IF audio # << >> THEN <<BinaryEv(audio), DebugEv("tts_bytes")>> ELSE << >>)
    \o <<CloseEv(CLOSE_NORMAL)>>

\* the debug events that follow the Model stage of a streaming session
StreamModelDebug ==
  (IF imports.monitoring THEN <<DebugEv("timings")>> ELSE << >>)
    \o (IF t_first_byte /\ t_first_partial THEN <<DebugEv("stt_first_partial")>> ELSE << >>)
    \o (IF t_first_byte /\ t_final_seen THEN <<DebugEv("stt_final")>> ELSE << >>)

\* faulty variant: the reply event is skipped when the adapter produced a text
AfterStreamModel_SkipReply(outcome) == IF outcome = "text" THEN "tts" ELSE "reply"

\* where the handler goes on after the Model stage, whatever the adapter did
\* ("none": it was not called)
AfterStreamModel(outcome) == "reply"

StreamModel ==
  /\ pc = "model"
  /\ IF got_final_text # << >>
     THEN /\ IF StreamCallsModel
             THEN \E outcome \in ReplyOutcomes :
                    /\ adapter_out' = AdapterText(outcome)
                    /\ model_calls' = model_calls + 1
                    /\ pc' = AfterStreamModel(outcome)
             ELSE /\ UNCHANGED <<adapter_out, model_calls>>
                  /\ pc' = AfterStreamModel("none")
          /\ sent' = sent \o StreamModelDebug
     ELSE /\ UNCHANGED <<adapter_out, model_calls, sent>>
          /\ pc' = AfterStreamModel("none")
  /\ reply' = adapter_out'
  /\ UNCHANGED <<procVars, rt_audio, event, enqueued, cred_failed, path, supplied, sttVars, chunks, transcript,
                 audio_bytes, tts_calls, frames, vendor_events>>

StreamReply ==
  /\ pc = "reply"
  /\ reply' = StreamReplyText(reply, got_final_text)
  /\ sent' = sent \o <<TextEv("reply", reply')>>
  /\ pc' = "tts"
  /\ UNCHANGED <<procVars, rt_audio, event, enqueued, cred_failed, path, supplied, sttVars, chunks, transcript,
                 adapter_out, audio_bytes, model_calls, tts_calls, frames, vendor_events>>

StreamTTS ==
  /\ pc = "tts"
  /\ IF CallsTTS(reply)
     THEN \E outcome \in TTSOutcomes :
            /\ audio_bytes' = Synthesized(outcome, reply)
            /\ tts_calls' = tts_calls + 1
     ELSE UNCHANGED <<audio_bytes, tts_calls>>
  /\ pc' = "audio"
  /\ UNCHANGED <<procVars, rt_audio, event, enqueued, cred_failed, path, supplied, sent, sttVars, chunks,
                 transcript, reply, adapter_out, model_calls, frames, vendor_events>>

\* the audio frame, the close frame, and the finally clause: rt.close()
StreamFinish ==
  /\ pc = "audio"
  /\ sent' = sent \o FinishFrames(audio_bytes)
  /\ rt' = IF rt = "none" THEN rt ELSE "closed"
  /\ pc' = "closed"
  /\ UNCHANGED <<procVars, rt_audio, event, enqueued, cred_failed, path, supplied, outbound, got_final_text,
                 fake_stt, fallback_to_fake, fake_task, audio_q, client_done, ended_by,
                 built_count, ingested_ms, t_first_byte, t_first_partial,
                 t_final_seen, flush_i, stageVars, frames, vendor_events>>


(***************************************************************************)
(* Batch endpoint /ws/audio                                                *)
(***************************************************************************)
BatchAccept ==
  /\ pc = "route"
  /\ path = BATCH_PATH
  /\ sent' = sent \o <<AcceptEv>>
  /\ pc' = "b_receive"
  /\ UNCHANGED <<procVars, rt_audio, event, enqueued, cred_failed, path, supplied, sttVars, stageVars, frames,
                 vendor_events>>

\* a binary frame: buffered, and the loop is left at once
BatchReceiveBytes ==
  /\ pc = "b_receive"
  /\ chunks' = chunks + 1
  /\ pc' = "b_process"
  /\ event' = "bytes"
  /\ UNCHANGED <<procVars, rt_audio, enqueued, cred_failed, path, supplied, sent, sttVars, transcript,
                 reply, adapter_out, audio_bytes, model_calls, tts_calls, frames,
                 vendor_events>>

\* a text frame that is no end-of-input marker: ignored
BatchReceiveIgnoredText ==
  /\ pc = "b_receive"
  /\ \E frame \in ControlFrames : ~IsStop(frame) /\ event' = frame
  /\ UNCHANGED <<procVars, rt_audio, enqueued, cred_failed, pc, path, supplied, sent, sttVars, stageVars,
                 frames, vendor_events>>

\* {"type": "end"} or {"type": "stop"}
BatchReceiveStop ==
  /\ pc = "b_receive"
  /\ \E frame \in ControlFrames : IsStop(frame) /\ event' = frame
  /\ pc' = "b_process"
  /\ UNCHANGED <<procVars, rt_audio, enqueued, cred_failed, path, supplied, sent, sttVars, stageVars,
                 frames, vendor_events>>

BatchReceiveDisconnect ==
  /\ pc = "b_receive"
  /\ pc' = "b_process"
  /\ event' = "disconnect"
  /\ UNCHANGED <<procVars, rt_audio, enqueued, cred_failed, path, supplied, sent, sttVars, stageVars,
                 frames, vendor_events>>

\* faulty variant: the session is closed without the `error` event
BatchNoAudio_NoError ==
  /\ pc = "b_process"
  /\ chunks = 0
  /\ sent' = sent \o <<CloseEv(CLOSE_NORMAL)>>
  /\ pc' = "closed"
  /\ event' = "none"
  /\ UNCHANGED <<procVars, rt_audio, enqueued, cred_failed, path, supplied, sttVars, stageVars, frames,
                 vendor_events>>

\* `if not chunks`
BatchNoAudio ==
  /\ pc = "b_process"
  /\ chunks = 0
  /\ sent' = sent \o <<ErrorEv("No audio received"), CloseEv(CLOSE_NORMAL)>>
  /\ pc' = "closed"
  /\ event' = "none"
  /\ UNCHANGED <<procVars, rt_audio, enqueued, cred_failed, path, supplied, sttVars, stageVars, frames,
                 vendor_events>>

\* texts the vendor's batch transcription may return
BatchTexts == {<< >>, T_hi, T_claria}

ERR_NO_SDK == "transcription failed: assemblyai package not available"

ERR_NO_KEY == "transcription failed: ASSEMBLYAI_API_KEY is missing in environment."

\* transcribe_audio: the exception it raises before its own try block, if any
TranscribeRaises ==
  IF ~imports.assemblyai THEN ERR_NO_SDK
  ELSE IF ~environ.ASSEMBLYAI_API_KEY THEN ERR_NO_KEY
  ELSE ""

\* the events the batch coordinator sends for a transcription that raised `err`
\* and left `text`, before it goes on to the Model stage
BatchSttEvents(err, text) ==
  (IF err # "" THEN <<ErrorEv(err)>> ELSE << >>)
    \o (IF text # << >> THEN <<TextEv("final", text)>> ELSE << >>)

\* faulty variant: the handler returns after reporting a transcription failure
AfterBatchStt_Abort(err) == IF err # "" THEN "closed" ELSE "b_model"

\* the position after the transcription stage, whatever its outcome
AfterBatchStt(err) == "b_model"

\* transcription of the buffered blob and the `final` event
BatchTranscribe ==
  /\ pc = "b_process"
  /\ chunks > 0
  /\ IF ~imports.helpers
     THEN /\ transcript' = << >>
          /\ sent' = sent
          /\ pc' = AfterBatchStt("")
     ELSE IF TranscribeRaises # ""
     THEN /\ transcript' = << >>
          /\ sent' = sent \o BatchSttEvents(TranscribeRaises, << >>)
          /\ pc' = AfterBatchStt(TranscribeRaises)
     ELSE \E raw \in BatchTexts :
            /\ transcript' = normalize_transcript(raw)
            /\ sent' = sent \o BatchSttEvents("", transcript')
            /\ pc' = AfterBatchStt("")
  /\ event' = "none"
  /\ UNCHANGED <<procVars, rt_audio, enqueued, cred_failed, path, supplied, sttVars, chunks, reply,
                 adapter_out, audio_bytes, model_calls, tts_calls, frames, vendor_events>>

\* batch: `if transcript:` guards the Model stage
BatchCallsModel == transcript # << >> /\ imports.helpers

\* faulty variant: a Reply adapter call that raised is tried again
AfterBatchModel_Retry(outcome) == IF outcome = "raise" THEN "b_model" ELSE "b_reply"

\* where the handler goes on after the Model stage, whatever the adapter did
\* ("none": it was not called)
AfterBatchModel(outcome) == "b_reply"

BatchModel ==
  /\ pc = "b_model"
  /\ IF BatchCallsModel
     THEN \E outcome \in ReplyOutcomes :
            /\ adapter_out' = AdapterText(outcome)
            /\ model_calls' = model_calls + 1
            /\ pc' = AfterBatchModel(outcome)
     ELSE /\ UNCHANGED <<adapter_out, model_calls>>
          /\ pc' = AfterBatchModel("none")
  /\ reply' = adapter_out'
  /\ sent' = sent \o (IF imports.monitoring THEN <<DebugEv("timings")>> ELSE << >>)
  /\ UNCHANGED <<procVars, rt_audio, event, enqueued, cred_failed, path, supplied, sttVars, chunks, transcript,
                 audio_bytes, tts_calls, frames, vendor_events>>

BatchReply ==
  /\ pc = "b_reply"
  /\ reply' = BatchReplyText(reply, transcript)
  /\ sent' = sent \o <<TextEv("reply", reply')>>
  /\ pc' = "b_tts"
  /\ UNCHANGED <<procVars, rt_audio, event, enqueued, cred_failed, path, supplied, sttVars, chunks, transcript,
                 adapter_out, audio_bytes, model_calls, tts_calls, frames, vendor_events>>

BatchTTS ==
  /\ pc = "b_tts"
  /\ IF CallsTTS(reply)
     THEN \E outcome \in TTSOutcomes :
            /\ audio_bytes' = Synthesized(outcome, reply)
            /\ tts_calls' = tts_calls + 1
     ELSE UNCHANGED <<audio_bytes, tts_calls>>
  /\ pc' = "b_audio"
  /\ UNCHANGED <<procVars, rt_audio, event, enqueued, cred_failed, path, supplied, sent, sttVars, chunks,
                 transcript, reply, adapter_out, model_calls, frames, vendor_events>>

BatchFinish ==
  /\ pc = "b_audio"
  /\ sent' = sent \o FinishFrames(audio_bytes)
  /\ pc' = "closed"
  /\ UNCHANGED <<procVars, rt_audio, event, enqueued, cred_failed, path, supplied, sttVars, stageVars, frames,
                 vendor_events>>

(***************************************************************************)
(* The next connection of the same process                                 *)
(***************************************************************************)
CredentialErrors == {"ASSEMBLYAI_API_KEY missing", ERR_NO_KEY}

HasCredentialError(trace) ==
  \E i \in 1..Len(trace) : trace[i].type = "error" /\ trace[i].info \in CredentialErrors

\* the handler has returned (or raised into the server): the server calls
\* `app` again for the next connection; the environment and the imports of
\* the process stay as they are
NewSession ==
  /\ pc \in {"closed", "crashed"}
  /\ cred_failed' = (cred_failed \/ HasCredentialError(sent))
  /\ pc' = "connect"
  /\ path' = ""
  /\ supplied' = ""
  /\ sent' = << >>
  /\ outbound' = << >>
  /\ enqueued' = << >>
  /\ got_final_text' = << >>
  /\ fake_stt' = FALSE
  /\ fallback_to_fake' = FALSE
  /\ rt' = "none"
  /\ rt_audio' = 0
  /\ fake_task' = "none"
  /\ audio_q' = << >>
  /\ client_done' = FALSE
  /\ event' = "none"
  /\ ended_by' = ""
  /\ built_count' = 0
  /\ ingested_ms' = 0
  /\ t_first_byte' = FALSE
  /\ t_first_partial' = FALSE
  /\ t_final_seen' = FALSE
  /\ flush_i' = 0
  /\ chunks' = 0
  /\ transcript' = << >>
  /\ reply' = << >>
  /\ adapter_out' = << >>
  /\ audio_bytes' = << >>
  /\ model_calls' = 0
  /\ tts_calls' = 0
  /\ frames' = 0
  /\ vendor_events' = 0
  /\ UNCHANGED procVars

Next ==
  \/ Connect
  \/ UnknownPath
  \/ StreamSetup
  \/ VendorPartial
  \/ VendorFinal
  \/ VendorError
  \/ FakeEmitterStep
  \/ DrainOne
  \/ DrainEmpty
  \/ ReceiveBytes
  \/ ReceiveIgnoredText
  \/ ReceiveFails
  \/ ReceiveStop
  \/ ReceiveDisconnect
  \/ WaitFakeDone
  \/ WaitFakeTimeout
  \/ FlushOne
  \/ FlushEnd
  \/ StreamModel
  \/ StreamReply
  \/ StreamTTS
  \/ StreamFinish
  \/ BatchAccept
  \/ BatchReceiveBytes
  \/ BatchReceiveIgnoredText
  \/ BatchReceiveStop
  \/ BatchReceiveDisconnect
  \/ BatchNoAudio
  \/ BatchTranscribe
  \/ BatchModel
  \/ BatchReply
  \/ BatchTTS
  \/ BatchFinish
  \/ NewSession

Spec == Init /\ [][Next]_vars

\* the steps the handler takes by itself, without waiting for the client:
\* every one of them follows its predecessor in the code of `app`, and the
\* event loop runs a handler that is not waiting
HandlerSteps ==
  \/ StreamSetup
  \/ DrainOne
  \/ DrainEmpty
  \/ WaitFakeDone
  \/ WaitFakeTimeout
  \/ FlushOne
  \/ FlushEnd
  \/ StreamModel
  \/ StreamReply
  \/ StreamTTS
  \/ StreamFinish
  \/ UnknownPath
  \/ BatchAccept
  \/ BatchNoAudio
  \/ BatchTranscribe
  \/ BatchModel
  \/ BatchReply
  \/ BatchTTS
  \/ BatchFinish

\* Fair scheduling: the handler's own steps and the simulator task are run
\* by the event loop; what receive() returns, and whether it returns, is the
\* client's and the transport's choice, and so are the vendor's callbacks
LiveSpec == Spec /\ WF_vars(HandlerSteps) /\ WF_vars(FakeEmitterStep)

\* `await receive()` of the Listening loop comes back: with a frame, with a
\* disconnect, or by raising
ReceiveReturns ==
  \/ ReceiveBytes
  \/ ReceiveIgnoredText
  \/ ReceiveFails
  \/ ReceiveStop
  \/ ReceiveDisconnect

\* Fair scheduling with a transport on which receive() never blocks forever
LiveSpecReceive == LiveSpec /\ WF_vars(ReceiveReturns)


(***************************************************************************)
(* The Reply adapter: handle_conversation                                  *)
(***************************************************************************)
\* every variable of a session handler
connVars ==
  <<cred_failed, pc, path, supplied, sent, outbound, enqueued,
    rt_audio, got_final_text, fake_stt, fallback_to_fake, rt, fake_task, audio_q,
    client_done, event, ended_by, built_count, ingested_ms, t_first_byte,
    t_first_partial, t_final_seen, flush_i, chunks, transcript, reply, adapter_out,
    audio_bytes, model_calls, tts_calls, frames, vendor_events>>

\* what neither the Reply adapter nor POST /chat nor the process-wide state touches
sessVars == <<libVars, connVars>>

\* every variable but the Reply adapter's
appVars == <<environ, imports, chat, sharedVars, sessVars>>

\* transcripts handed to handle_conversation: empty, blank, a text
HcTranscripts == {<< >>, <<" ">>, T_hi}

\* the text a variant produces when it produces one
VariantText(v) ==
  CASE v = "cmd" -> <<"c">> [] v = "url" -> <<"u">> [] v = "shim" -> <<"s">>
    [] v = "llm" -> <<"l">>

\* what one run of a variant does: it fails (non-zero exit, timeout, HTTP
\* error, exception), or it gives nothing, white space or a text
Kinds == {"fail", "empty", "blank", "text"}

\* what a variant writes or returns when it does not fail
RawOf(v, kind) ==
  CASE kind = "empty" -> << >> [] kind = "blank" -> <<" ">> [] kind = "text" -> VariantText(v)

\* how a text counts for `if out:`
Outcome(text) == IF text = << >> THEN "empty" ELSE "text"

\* the runs of variant v that are possible in h: any of `kinds`, or the same as
\* last time where the variants are functions of the text
RunVariant(h, v, kinds) ==
  {[h EXCEPT !.world[v] = k, !.runs[v] = @ + 1]
   : k \in IF h.fixed /\ h.world[v] # "unknown" THEN {h.world[v]} ELSE kinds}

Failed(h, v) == h.world[v] = "fail"

\* the stripped output of the run of v recorded in h
Stripped(h, v) == Strip(RawOf(v, h.world[v]))

\* `handle_conversation(t)` is entered from h
HcEnter(h, t) ==
  LET f == [HcFresh(h.cfg) EXCEPT !.transcript = t, !.convo = h.convo,
                                  !.world = h.world, !.fixed = h.fixed]
  IN  IF Strip(t) = << >> THEN [f EXCEPT !.pc = "done"] ELSE [f EXCEPT !.pc = "cmd"]

\* handle_conversation(transcript): `if not transcript.strip(): return ""`
HcCall ==
  /\ hc.pc = "idle"
  /\ chat.pc = "idle"
  /\ \E t \in HcTranscripts : hc' = HcEnter(HcFresh(hc.cfg), t)
  /\ UNCHANGED appVars

\* 1) KLARVIA_MODEL_CMD: subprocess.run; a non-zero exit code, a timeout or
\* any other exception is logged; empty output falls through
HcCmd ==
  /\ hc.pc = "cmd"
  /\ IF ~hc.cfg.cmd
     THEN hc' = [hc EXCEPT !.pc = "url"]
     ELSE \E h \in RunVariant(hc, "cmd", Kinds) :
            hc' = IF Failed(h, "cmd")
                  THEN [h EXCEPT !.pc = "url", !.res.cmd = "fail"]
                  ELSE IF Stripped(h, "cmd") # << >>
                  THEN [h EXCEPT !.pc = "done", !.res.cmd = "text",
                                 !.out = Stripped(h, "cmd")]
                  ELSE [h EXCEPT !.pc = "url", !.res.cmd = "empty"]
  /\ UNCHANGED appVars

\* 2) AI_CHAT_URL: requests.post; without the requests package, on an
\* exception or on a status that is not OK the step is logged and left; an
\* OK response is returned whatever it carried (`return out`)
HcUrl ==
  /\ hc.pc = "url"
  /\ IF ~hc.cfg.url
     THEN hc' = [hc EXCEPT !.pc = "shim"]
     ELSE IF ~hc.cfg.requests
     THEN hc' = [hc EXCEPT !.pc = "shim", !.res.url = "fail"]
     ELSE \E h \in RunVariant(hc, "url", Kinds) :
            hc' = IF Failed(h, "url")
                  THEN [h EXCEPT !.pc = "shim", !.res.url = "fail"]
                  ELSE [h EXCEPT !.pc = "done", !.res.url = Outcome(Stripped(h, "url")),
                                 !.out = Stripped(h, "url")]
  /\ UNCHANGED appVars

\* what klarvia_voice_bot.infer runs: the KLARVIA_MODEL_CMD command when it is
\* set, else local_infer.py or its built-in replies
ShimSource(cfg) == IF cfg.cmd THEN "cmd" ELSE "shim"

\* infer(text) is called from h: with the command set it runs the command and
\* raises when that fails; its own replies do not fail
InferRuns(h) ==
  IF h.cfg.cmd
  THEN {[r EXCEPT !.runs.shim = @ + 1] : r \in RunVariant(h, "cmd", Kinds)}
  ELSE RunVariant(h, "shim", Kinds \ {"fail"})

\* 3) klarvia_voice_bot.infer, when the module can be imported
HcShim ==
  /\ hc.pc = "shim"
  /\ IF ~hc.cfg.shim
     THEN hc' = [hc EXCEPT !.pc = "llm"]
     ELSE \E h \in InferRuns(hc) :
            LET src == ShimSource(hc.cfg)
            IN  hc' = IF Failed(h, src)
                      THEN [h EXCEPT !.pc = "llm", !.res.shim = "fail"]
                      ELSE IF Stripped(h, src) # << >>
                      THEN [h EXCEPT !.pc = "done", !.res.shim = "text",
                                     !.out = Stripped(h, src)]
                      ELSE [h EXCEPT !.pc = "llm", !.res.shim = "empty"]
  /\ UNCHANGED appVars

\* ConversationManager.get_response: the HTTP endpoint when AI_CHAT_URL is
\* set, else the hosted model; every failure gives ""
GetResponse(h) ==
  IF h.cfg.url
  THEN IF ~h.cfg.requests
       THEN {[h EXCEPT !.pc = "done", !.out = << >>]}
       ELSE {IF Failed(r, "url")
             THEN [r EXCEPT !.pc = "done", !.out = << >>, !.res.url = "fail"]
             ELSE [r EXCEPT !.pc = "done", !.out = Stripped(r, "url"),
                            !.res.url = Outcome(Stripped(r, "url"))]
             : r \in RunVariant(h, "url", Kinds)}
  ELSE {IF Failed(r, "llm")
        THEN [r EXCEPT !.pc = "done", !.out = << >>, !.res.llm = "fail"]
        ELSE [r EXCEPT !.pc = "done", !.out = RawOf("llm", r.world.llm),
                       !.res.llm = Outcome(RawOf("llm", r.world.llm))]
        : r \in RunVariant(h, "llm", Kinds)}

\* 4) OPENAI_API_KEY: the singleton ConversationManager is built on first use
\* (its constructor raises without the openai package) and asked
HcLlm ==
  /\ hc.pc = "llm"
  /\ IF ~hc.cfg.key
     THEN hc' = [hc EXCEPT !.pc = "done", !.out = << >>]
     ELSE IF ~hc.convo /\ ~hc.cfg.sdk
     THEN hc' = [hc EXCEPT !.pc = "done", !.raised = TRUE]
     ELSE hc' \in GetResponse([hc EXCEPT !.convo = TRUE])
  /\ UNCHANGED appVars

\* the caller has the result (or the exception); the adapter is free again
HcReturn ==
  /\ hc.pc = "done"
  /\ chat.pc = "idle"
  /\ hc' = [hc EXCEPT !.pc = "idle"]
  /\ UNCHANGED appVars

InitHC ==
  /\ environ = CHOOSE e \in ProcessEnvs : TRUE
  /\ imports = CHOOSE i \in ProcessImports : TRUE
  /\ hc \in {HcFresh(cfg) : cfg \in HcConfigs}
  /\ chat = ChatIdle
  /\ SharedFresh
  /\ LibIdle
  /\ cred_failed = FALSE
  /\ FreshSession

NextHC == HcCall \/ HcCmd \/ HcUrl \/ HcShim \/ HcLlm \/ HcReturn

SpecHC == InitHC /\ [][NextHC]_vars

(***************************************************************************)
(* POST /chat                                                              *)
(***************************************************************************)
HTTP_OK == 200
HTTP_BAD_REQUEST == 400

\* the body's "text" field: missing or empty, blank, a text
ChatBodies == {<< >>, <<" ">>, T_hi}

\* `(data.get("text") or "").strip()`, then the normalizer when it was imported
ChatText(raw) ==
  LET s == Strip(raw)
  IN  IF imports.helpers /\ s # << >> THEN normalize_transcript(s) ELSE s

\* the request arrives: without a text it is answered 400 at once.  From here
\* on the variants are taken as functions of the request's text
ChatRequest ==
  /\ chat.pc = "idle"
  /\ hc.pc = "idle"
  /\ \E raw \in ChatBodies :
       LET text == ChatText(raw)
       IN  chat' = IF text = << >>
                   THEN [ChatIdle EXCEPT !.pc = "done", !.status = HTTP_BAD_REQUEST]
                   ELSE [ChatIdle EXCEPT !.pc = "cmd", !.text = text]
  /\ hc' = [HcFresh(hc.cfg) EXCEPT !.convo = hc.convo, !.fixed = TRUE]
  /\ UNCHANGED <<environ, imports, sharedVars, sessVars>>

\* 1) KLARVIA_MODEL_CMD: exit code 0 sets reply to the stripped output, empty
\* or not; a failure is printed
ChatCmd ==
  /\ chat.pc = "cmd"
  /\ IF ~hc.cfg.cmd
     THEN UNCHANGED hc
     ELSE hc' \in RunVariant(hc, "cmd", Kinds)
  /\ chat' = IF hc.cfg.cmd /\ ~Failed(hc', "cmd")
             THEN [chat EXCEPT !.pc = "conv", !.has_reply = TRUE,
                               !.reply = Stripped(hc', "cmd")]
             ELSE [chat EXCEPT !.pc = "conv"]
  /\ UNCHANGED <<environ, imports, sharedVars, sessVars>>

\* 2) `if reply is None` and AI_CHAT_URL or OPENAI_API_KEY is set:
\* handle_conversation(text) is called
ChatConversation ==
  /\ chat.pc = "conv"
  /\ IF ~chat.has_reply /\ (hc.cfg.url \/ hc.cfg.key) /\ imports.helpers
     THEN /\ hc' = HcEnter(hc, chat.text)
          /\ chat' = [chat EXCEPT !.pc = "conv_wait"]
     ELSE /\ chat' = [chat EXCEPT !.pc = "shim"]
          /\ UNCHANGED hc
  /\ UNCHANGED <<environ, imports, sharedVars, sessVars>>

\* handle_conversation comes back: its result is the reply, empty or not; an
\* exception is printed and reply stays None
ChatConversationReturns ==
  /\ chat.pc = "conv_wait"
  /\ hc.pc = "done"
  /\ chat' = IF hc.raised
             THEN [chat EXCEPT !.pc = "shim"]
             ELSE [chat EXCEPT !.pc = "shim", !.has_reply = TRUE, !.reply = hc.out]
  /\ hc' = [hc EXCEPT !.pc = "idle"]
  /\ UNCHANGED <<environ, imports, sharedVars, sessVars>>

\* 3) `if reply is None`: klarvia_voice_bot.infer when the module can be
\* imported; its stripped result is the reply, an exception is printed
ChatShim ==
  /\ chat.pc = "shim"
  /\ IF ~chat.has_reply /\ hc.cfg.shim
     THEN /\ hc' \in InferRuns(hc)
          /\ chat' = IF Failed(hc', ShimSource(hc.cfg))
                     THEN [chat EXCEPT !.pc = "respond"]
                     ELSE [chat EXCEPT !.pc = "respond", !.has_reply = TRUE,
                                       !.reply = Stripped(hc', ShimSource(hc.cfg))]
     ELSE /\ chat' = [chat EXCEPT !.pc = "respond"]
          /\ UNCHANGED hc
  /\ UNCHANGED <<environ, imports, sharedVars, sessVars>>

\* 4) `if not reply`: the echo; the response is sent with status 200
ChatRespond ==
  /\ chat.pc = "respond"
  /\ chat' = [chat EXCEPT !.pc = "done", !.status = HTTP_OK,
                          !.reply = IF chat.reply = << >>
                                    THEN EchoPrefix \o chat.text ELSE chat.reply]
  /\ UNCHANGED <<environ, imports, hc, sharedVars, sessVars>>

\* for comparison, handle_conversation is called directly on the text of the
\* request just answered
ChatReference ==
  /\ chat.pc = "done"
  /\ chat.status = HTTP_OK
  /\ hc' = HcEnter(hc, chat.text)
  /\ chat' = [chat EXCEPT !.pc = "ref_wait"]
  /\ UNCHANGED <<environ, imports, sharedVars, sessVars>>

ChatReferenceReturns ==
  /\ chat.pc = "ref_wait"
  /\ hc.pc = "done"
  /\ chat' = [chat EXCEPT !.pc = "compared", !.ref = hc.out, !.ref_raised = hc.raised]
  /\ hc' = [hc EXCEPT !.pc = "idle"]
  /\ UNCHANGED <<environ, imports, sharedVars, sessVars>>

\* the handler has returned; the next request may come
ChatReturn ==
  /\ \/ chat.pc = "compared"
     \/ chat.pc = "done" /\ chat.status = HTTP_BAD_REQUEST
  /\ chat' = ChatIdle
  /\ UNCHANGED <<environ, imports, hc, sharedVars, sessVars>>

InitChat ==
  /\ environ = CHOOSE e \in ProcessEnvs : TRUE
  /\ imports = [assemblyai |-> FALSE, helpers |-> TRUE, monitoring |-> TRUE]
  /\ hc \in {HcFresh(cfg) : cfg \in HcConfigs}
  /\ chat = ChatIdle
  /\ SharedFresh
  /\ LibIdle
  /\ cred_failed = FALSE
  /\ FreshSession

NextChat ==
  \/ ChatRequest \/ ChatCmd \/ ChatConversation \/ ChatConversationReturns
  \/ ChatShim \/ ChatRespond \/ ChatReference \/ ChatReferenceReturns \/ ChatReturn
  \/ HcCmd \/ HcUrl \/ HcShim \/ HcLlm

SpecChat == InitChat /\ [][NextChat]_vars

(***************************************************************************)
(* Two sessions at once: the Stage Timer, the chat history, output.mp3     *)
(***************************************************************************)
\* what the handlers of this section leave alone
sessionVars == <<environ, imports, hc, chat, sessVars>>

\* faulty variant: each session keeps its own records, another session's
\* stage_start leaves the store as it is
stage_start_PerSession(store, stage, s) ==
  IF store[stage].start \in {0, s}
  THEN [store EXCEPT ![stage] = [start |-> s, end |-> 0]]
  ELSE store

\* monitoring.stage_start(stage) called by session s
stage_start(store, stage, s) == [store EXCEPT ![stage] = [start |-> s, end |-> 0]]

\* monitoring.stage_end(stage) called by session s: the start that is in the
\* store is kept
stage_end(store, stage, s) == [store EXCEPT ![stage].end = s]

\* the handler of session s goes from `from` to `to`
Goes(s, from, to) ==
  /\ handlers[s].pc = from
  /\ handlers' = [handlers EXCEPT ![s].pc = to]

\* stage_start / stage_end of the three stages, in the handler's own task
StartStage(s, stage, from, to) ==
  /\ Goes(s, from, to)
  /\ pipeline_state' = stage_start(pipeline_state, stage, s)
  /\ UNCHANGED <<output_mp3, messages, sessionVars>>

EndStage(s, stage, from, to) ==
  /\ Goes(s, from, to)
  /\ pipeline_state' = stage_end(pipeline_state, stage, s)
  /\ UNCHANGED <<output_mp3, messages, sessionVars>>

SttStart(s) == StartStage(s, "STT", "start", "stt")

SttEnd(s) == EndStage(s, "STT", "stt", "model")

ModelStart(s) == StartStage(s, "Model", "model", "add_user")

\* get_response in a worker thread: add_user, ...
AddUser(s) ==
  /\ Goes(s, "add_user", "create")
  /\ messages' = Append(messages, [role |-> "user", session |-> s])
  /\ UNCHANGED <<pipeline_state, output_mp3, sessionVars>>

\* ... chat.completions.create with the history as it is then, ...
CreateCompletion(s) ==
  /\ handlers[s].pc = "create"
  /\ handlers' = [handlers EXCEPT ![s].pc = "add_assistant", ![s].request = messages]
  /\ UNCHANGED <<pipeline_state, output_mp3, messages, sessionVars>>

\* ... add_assistant
AddAssistant(s) ==
  /\ Goes(s, "add_assistant", "model_end")
  /\ messages' = Append(messages, [role |-> "assistant", session |-> s])
  /\ UNCHANGED <<pipeline_state, output_mp3, sessionVars>>

ModelEnd(s) == EndStage(s, "Model", "model_end", "timings")

\* the `debug` event with stage timings: debug_report() copies the store
SendTimings(s) ==
  /\ handlers[s].pc = "timings"
  /\ handlers' = [handlers EXCEPT ![s].pc = "tts", ![s].snapshot = pipeline_state]
  /\ UNCHANGED <<pipeline_state, output_mp3, messages, sessionVars>>

TtsStart(s) == StartStage(s, "TTS", "tts", "open")

\* generate_voice in a worker thread: open(out_path, "wb") empties the file, ...
OpenOutput(s) ==
  /\ Goes(s, "open", "write")
  /\ output_mp3' = 0
  /\ UNCHANGED <<pipeline_state, messages, sessionVars>>

\* ... f.write(audio_bytes) puts the audio of this session's reply there
WriteOutput(s) ==
  /\ Goes(s, "write", "read")
  /\ output_mp3' = s
  /\ UNCHANGED <<pipeline_state, messages, sessionVars>>

\* the handler reads the file back in a second worker thread
ReadOutput(s) ==
  /\ handlers[s].pc = "read"
  /\ handlers' = [handlers EXCEPT ![s].pc = "tts_end", ![s].audio = output_mp3]
  /\ UNCHANGED <<pipeline_state, output_mp3, messages, sessionVars>>

TtsEnd(s) == EndStage(s, "TTS", "tts_end", "send")

\* `if audio_bytes:` the binary frame; then the close
SendAudio(s) ==
  /\ handlers[s].pc = "send"
  /\ handlers' = [handlers EXCEPT ![s].pc = "closed", ![s].frame = handlers[s].audio]
  /\ UNCHANGED <<pipeline_state, output_mp3, messages, sessionVars>>

HandlerStep(s) ==
  \/ SttStart(s) \/ SttEnd(s) \/ ModelStart(s) \/ AddUser(s) \/ CreateCompletion(s)
  \/ AddAssistant(s) \/ ModelEnd(s) \/ SendTimings(s) \/ TtsStart(s) \/ OpenOutput(s)
  \/ WriteOutput(s) \/ ReadOutput(s) \/ TtsEnd(s) \/ SendAudio(s)

InitShared ==
  /\ environ = CHOOSE e \in ProcessEnvs : TRUE
  /\ imports = [assemblyai |-> FALSE, helpers |-> TRUE, monitoring |-> TRUE]
  /\ hc = HcFresh([NoVariants EXCEPT !.key = TRUE, !.sdk = TRUE])
  /\ chat = ChatIdle
  /\ SharedFresh
  /\ LibIdle
  /\ cred_failed = FALSE
  /\ FreshSession

NextShared == \E s \in Sessions : HandlerStep(s)

SpecShared == InitShared /\ [][NextShared]_vars

(***************************************************************************)
(* normalize_transcript called on its own                                  *)
(***************************************************************************)
\* what the texts given to it are put together from: variants in lower,
\* mixed and upper case, the canonical spelling, another word, a letter that
\* makes a longer word of its neighbour, a blank, a full stop
NormPieces ==
  { <<"c", "l", "a", "r", "i", "a">>,
    <<"G", "l", "a", "r", "v", "i", "a">>,
    <<"K", "L", "A", "V", "I", "A">>,
    Canonical,
    <<"h", "i">>,
    <<"x">>,
    <<" ">>,
    <<".">> }

RECURSIVE Concat(_)
Concat(ps) == IF ps = << >> THEN << >> ELSE Head(ps) \o Concat(Tail(ps))

NormInputs ==
  {Concat(ps) : ps \in UNION {[1..n -> NormPieces] : n \in 0..MaxPieces}}

\* out = normalize_transcript(text)
Normalize ==
  /\ nt.pc = "given"
  /\ nt' = [nt EXCEPT !.pc = "once", !.y = normalize_transcript(nt.x)]
  /\ UNCHANGED <<environ, imports, hc, chat, sharedVars, timer, srv, connVars>>

\* normalize_transcript(out)
NormalizeAgain ==
  /\ nt.pc = "once"
  /\ nt' = [nt EXCEPT !.pc = "twice", !.z = normalize_transcript(nt.y)]
  /\ UNCHANGED <<environ, imports, hc, chat, sharedVars, timer, srv, connVars>>

InitNorm ==
  /\ environ = CHOOSE e \in ProcessEnvs : TRUE
  /\ imports = [assemblyai |-> FALSE, helpers |-> TRUE, monitoring |-> TRUE]
  /\ hc = HcFresh(NoVariants)
  /\ chat = ChatIdle
  /\ SharedFresh
  /\ nt \in {NormStart(x) : x \in NormInputs}
  /\ timer = TimerFresh
  /\ srv = SrvFresh
  /\ cred_failed = FALSE
  /\ FreshSession

NextNorm == Normalize \/ NormalizeAgain

SpecNorm == InitNorm /\ [][NextNorm]_vars

(***************************************************************************)
(* The Stage Timer (voicebot.monitoring) called on its own                 *)
(***************************************************************************)
\* stage names the calls are made with
TimerNames == {"STT", "Model"}

\* the msg argument of stage_end: left out, or a text
TimerMessages == {Null, <<"len=2">>}

\* time.time(): the clock does not run backwards between two calls
Times == {t \in {timer.clock, timer.clock + 1} : t <= MaxClock}

Has(store, key) == \E item \in store : item[1] = key

\* pipeline_state.get(stage, {})
StoreGet(store, key) ==
  IF Has(store, key) THEN (CHOOSE item \in store : item[1] = key)[2] ELSE Null

\* rec.get("start")
RecGetStart(rec) == IF rec = Null THEN Null ELSE rec.start

\* faulty variant: the assignment adds an item and keeps the ones already there
StoreSet_Append(store, key, rec) == store \cup {<<key, rec>>}

\* pipeline_state[stage] = rec
StoreSet(store, key, rec) ==
  {item \in store : item[1] # key} \cup {<<key, rec>>}

\* t - start: a TypeError when start is None
Minus(t, start) ==
  IF start = Null
  THEN [raised |-> TRUE, value |-> Null]
  ELSE [raised |-> FALSE, value |-> <<t - start[1]>>]

\* faulty variant: the duration computed without looking at start
Duration_Unguarded(t, start) == Minus(t, start)

\* (t - start) if start else None
Duration(t, start) ==
  IF start # Null /\ start[1] # 0
  THEN Minus(t, start)
  ELSE [raised |-> FALSE, value |-> Null]

StartRecord(t) ==
  [start |-> <<t>>, end |-> Null, duration |-> Null, success |-> Null, msg |-> Null]

TimerIdleRest == <<environ, imports, hc, chat, sharedVars, nt, srv, connVars>>

\* monitoring.stage_start(stage)
TimerStageStart ==
  \E stage \in TimerNames, t \in Times :
    /\ timer' = [timer EXCEPT !.store = StoreSet(timer.store, stage, StartRecord(t)),
                              !.clock = t, !.call = "start", !.name = stage,
                              !.success = Null, !.msg = Null,
                              !.returned = <<t>>, !.raised = FALSE,
                              !.prior = StoreGet(timer.store, stage), !.snapshot = {}]
    /\ UNCHANGED TimerIdleRest

\* monitoring.stage_end(stage, success, msg)
TimerStageEnd ==
  \E stage \in TimerNames, t \in Times, success \in BOOLEAN, msg \in TimerMessages :
    LET rec   == StoreGet(timer.store, stage)
        start == RecGetStart(rec)
        dur   == Duration(t, start)
        new   == [start |-> start, end |-> <<t>>, duration |-> dur.value,
                  success |-> <<success>>, msg |-> msg]
    IN  /\ timer' = [timer EXCEPT
                       !.store = IF dur.raised THEN @ ELSE StoreSet(@, stage, new),
                       !.clock = t, !.call = "end", !.name = stage,
                       !.success = <<success>>, !.msg = msg,
                       !.returned = IF dur.raised THEN Null ELSE <<t>>,
                       !.raised = dur.raised, !.prior = rec, !.snapshot = {}]
        /\ UNCHANGED TimerIdleRest

\* monitoring.debug_report()
TimerDebugReport ==
  /\ timer.call # "snapshot"
  /\ timer' = [timer EXCEPT !.call = "snapshot", !.name = "", !.success = Null,
                            !.msg = Null, !.returned = Null, !.raised = FALSE,
                            !.prior = Null,
                            !.snapshot = {<<item[1], item[2]>> : item \in timer.store}]
  /\ UNCHANGED TimerIdleRest

InitTimer ==
  /\ environ = CHOOSE e \in ProcessEnvs : TRUE
  /\ imports = [assemblyai |-> FALSE, helpers |-> TRUE, monitoring |-> TRUE]
  /\ hc = HcFresh(NoVariants)
  /\ chat = ChatIdle
  /\ SharedFresh
  /\ LibIdle
  /\ cred_failed = FALSE
  /\ FreshSession

NextTimer == TimerStageStart \/ TimerStageEnd \/ TimerDebugReport

SpecTimer == InitTimer /\ [][NextTimer]_vars

(***************************************************************************)
(* ai/server.py: the /ws/audio handler                                     *)
(***************************************************************************)
\* text messages a client sends: the empty text, a text that is not base64,
\* base64 of a WAV file
SrvMessages == {"empty", "invalid", "audio"}

SrvRest == <<environ, imports, hc, chat, sharedVars, nt, timer, connVars>>

\* what the handler sent in the turn of the message in hand
SrvSend(kind) == [kind |-> kind, turn |-> srv.turn]

\* the token check, then websocket.accept()
SrvConnect ==
  /\ srv.pc = "connect"
  /\ \E provided \in Tokens :
       LET expected_token == environ.WS_AUTH_TOKEN
       IN  IF expected_token # "" /\ (provided = "" \/ provided # expected_token)
           THEN srv' = [srv EXCEPT !.pc = "closed", !.token = provided,
                                   !.sent = <<SrvSend("close 1008")>>]
           ELSE srv' = [srv EXCEPT !.pc = "receive", !.token = provided,
                                   !.sent = <<SrvSend("accept")>>]
  /\ UNCHANGED SrvRest

\* b64_chunk = await websocket.receive_text(), then base64.b64decode
SrvReceive ==
  /\ srv.pc = "receive"
  /\ srv.turn < MaxTurns
  /\ \E m \in SrvMessages :
       srv' = [srv EXCEPT
                 !.turn = @ + 1,
                 !.msg = m,
                 !.pc = IF m = "audio" THEN "stt" ELSE "receive",
                 !.sent = IF m = "invalid"
                          THEN Append(@, [kind |-> "error: invalid-audio", turn |-> srv.turn + 1])
                          ELSE @]
  /\ UNCHANGED SrvRest

\* receive_text() raises WebSocketDisconnect
SrvDisconnect ==
  /\ srv.pc = "receive"
  /\ srv' = [srv EXCEPT !.pc = "closed", !.msg = "disconnect"]
  /\ UNCHANGED SrvRest

\* text = await transcribe_audio(audio_bytes): "" when nothing was recognised
\* or the transcription failed
SrvTranscribe ==
  /\ srv.pc = "stt"
  /\ \E text \in {"", "text"} :
       IF text = ""
       THEN srv' = [srv EXCEPT !.pc = "receive",
                               !.sent = Append(@, SrvSend("status: no-speech"))]
       ELSE srv' = [srv EXCEPT !.pc = "model",
                               !.sent = Append(@, SrvSend("transcript"))]
  /\ UNCHANGED SrvRest

\* reply_text = await asyncio.to_thread(get_reply, text); an exception of
\* get_reply is caught by the handler's outer except, which closes with 1011
SrvModel ==
  /\ srv.pc = "model"
  /\ \E outcome \in {"reply", "raises"} :
       IF outcome = "reply"
       THEN srv' = [srv EXCEPT !.pc = "tts", !.sent = Append(@, SrvSend("reply"))]
       ELSE srv' = [srv EXCEPT !.pc = "closed", !.sent = Append(@, SrvSend("close 1011"))]
  /\ UNCHANGED SrvRest

\* if not audio_out: send "error: tts-failed"; else send_bytes(audio_out)
SrvAfterTTS(audio_out) == IF audio_out = "none" THEN "error: tts-failed" ELSE "binary"

\* audio_out = await text_to_speech(reply_text): b"" when pyttsx3 wrote an
\* empty file, or when the silent-clip fallback failed
SrvTTS ==
  /\ srv.pc = "tts"
  /\ \E audio_out \in {"none", "wav"} :
       srv' = [srv EXCEPT !.pc = "receive",
                          !.sent = Append(@, SrvSend(SrvAfterTTS(audio_out)))]
  /\ UNCHANGED SrvRest

InitServer ==
  /\ environ \in ProcessEnvs
  /\ imports = [assemblyai |-> FALSE, helpers |-> TRUE, monitoring |-> TRUE]
  /\ hc = HcFresh(NoVariants)
  /\ chat = ChatIdle
  /\ SharedFresh
  /\ LibIdle
  /\ cred_failed = FALSE
  /\ FreshSession

NextServer ==
  SrvConnect \/ SrvReceive \/ SrvDisconnect \/ SrvTranscribe \/ SrvModel \/ SrvTTS

SpecServer == InitServer /\ [][NextServer]_vars

(***************************************************************************)
(* Properties                                                              *)
(***************************************************************************)
Positions(type) == {i \in 1..Len(sent) : sent[i].type = type}

Count(type) == Cardinality(Positions(type))

LastSent == sent[Len(sent)]

\* the connection passed the token check of this session
Authorized == pc \notin {"connect"} /\ supplied = ws_token

\* C1: in a streaming session at most one `final` event is sent to the
\* client, whatever the STT variant delivers.
C1_AtMostOneFinal == path = STREAM_PATH => Count("final") <= 1

\* C2: on both endpoints no `final` event is sent after the `reply` event,
\* and a binary audio frame is never sent before the `reply` event.
C2_OrderFinalReplyAudio ==
  /\ \A i \in Positions("reply"), j \in Positions("final") : j < i
  /\ \A b \in Positions("binary") : \E i \in Positions("reply") : i < b

\* a streaming session that sent final, reply and audio, and whose vendor
\* delivered another final transcript after the flush: it stays unsent
C2_Witness ==
  /\ pc = "closed"
  /\ path = STREAM_PATH
  /\ Positions("final") # {}
  /\ Positions("binary") # {}
  /\ \E k \in 1..Len(outbound) : outbound[k].type = "final"

ExpectedReply(adapter, text) ==
  IF adapter # << >> THEN adapter
  ELSE IF text # << >> THEN EchoPrefix \o text
  ELSE Apology

SessionTranscript == IF path = STREAM_PATH THEN got_final_text ELSE transcript

\* C3: every `reply` event carries non-empty text: the adapter's text, else
\* the echo of the final transcript, else the apology, on both endpoints.
C3_ReplyTextChosen ==
  \A i \in Positions("reply") :
    /\ sent[i].text # << >>
    /\ sent[i].text = ExpectedReply(adapter_out, SessionTranscript)

\* C4: a streaming session that received audio and then a disconnect (no
\* stop frame) emits exactly one `reply`, at most one `final`, and the
\* `final` precedes the `reply`.
C4_DisconnectSession ==
  (path = STREAM_PATH /\ ended_by = "disconnect" /\ t_first_byte /\ pc = "closed")
    => /\ Count("reply") = 1
       /\ Count("final") <= 1
       /\ \A i \in Positions("reply"), j \in Positions("final") : j < i

\* C5: once the final transcript of a session is non-empty it never changes
\* for the rest of the session.
C5_FinalImmutable ==
  [][(got_final_text # << >> /\ pc' # "connect") => got_final_text' = got_final_text]_vars

\* C6: within one session the Reply adapter and the TTS adapter are each
\* invoked at most once.
C6_AdaptersOnce == model_calls <= 1 /\ tts_calls <= 1

\* a session ended by a disconnect that invoked both adapters
C6_Witness ==
  /\ pc = "closed"
  /\ ended_by = "disconnect"
  /\ model_calls = 1
  /\ tts_calls = 1

\* C7 as claimed: a connection whose token does not match the server token
\* is closed with 4401 and nothing else is sent on it.
C7_UnauthorizedOnlyClose ==
  (pc # "connect" /\ supplied # ws_token)
    => /\ pc = "closed"
       /\ LastSent = CloseEv(CLOSE_UNAUTHORIZED)
       /\ \A i \in 1..Len(sent) : sent[i].type \in {"accept", "close"}

\* C7 as amended: such a connection is sent exactly one `error` event
\* ("Unauthorized") and then the close frame with code 4401; no other event
\* is sent and no adapter is invoked.
C7_UnauthorizedErrorThenClose ==
  (pc # "connect" /\ supplied # ws_token)
    => /\ pc = "closed"
       /\ sent = <<AcceptEv, ErrorEv("Unauthorized"), CloseEv(CLOSE_UNAUTHORIZED)>>
       /\ model_calls = 0
       /\ tts_calls = 0

\* a wrong token against a configured WS_AUTH_TOKEN
C7_Witness ==
  /\ pc = "closed"
  /\ environ.WS_AUTH_TOKEN = "srv"
  /\ supplied = "gen"
  /\ LastSent = CloseEv(CLOSE_UNAUTHORIZED)

\* C8: with WS_AUTH_TOKEN unset or empty, a connection to an audio endpoint
\* that supplies no token is admitted, not closed as unauthorized.
C8_NoTokenAdmitted ==
  (pc # "connect" /\ environ.WS_AUTH_TOKEN = "" /\ supplied = ""
     /\ path \in {STREAM_PATH, BATCH_PATH})
    => \A i \in 1..Len(sent) : sent[i] # CloseEv(CLOSE_UNAUTHORIZED)

\* an authorized streaming session left without any usable STT variant
StreamSetupFailed ==
  /\ path = STREAM_PATH
  /\ Authorized
  /\ pc # "route"
  /\ rt = "none"
  /\ ~fake_stt

\* C9: every STT setup failure of a streaming session ends in one `error`
\* event followed by a close with code 1011; no exception escapes the
\* handler and no partial, final, reply or audio frame is sent.
C9_SetupFailureHandled ==
  StreamSetupFailed
    => /\ pc = "closed"
       /\ Len(sent) = 3
       /\ sent[1] = AcceptEv
       /\ sent[2].type = "error"
       /\ sent[3] = CloseEv(CLOSE_INTERNAL)

\* the session's only STT variant lacks its credential
StreamCredentialMissing ==
  /\ path = STREAM_PATH
  /\ Authorized
  /\ pc # "route"
  /\ ~environ.FAKE_STT
  /\ ~environ.ASSEMBLYAI_API_KEY

BatchCredentialMissing ==
  /\ path = BATCH_PATH
  /\ Authorized
  /\ pc = "closed"
  /\ chunks > 0
  /\ imports.helpers
  /\ imports.assemblyai
  /\ ~environ.ASSEMBLYAI_API_KEY

\* C10 as claimed: on either endpoint such a session gets an `error` event
\* and is then closed with code 1011.
C10_CredentialMissingCloses1011 ==
  (pc = "closed" /\ (StreamCredentialMissing \/ BatchCredentialMissing))
    => /\ Count("error") = 1
       /\ LastSent = CloseEv(CLOSE_INTERNAL)

\* C10 as amended: the streaming endpoint sends the `error` event and closes
\* with 1011; the batch endpoint sends the `error` event, goes on with an
\* empty transcript (no `final`, the apology as `reply`) and closes with
\* 1000; in both cases the handler returns normally.
C10_CredentialMissingSurfaced ==
  /\ StreamCredentialMissing
       => /\ pc = "closed"
          /\ sent = <<AcceptEv, ErrorEv("ASSEMBLYAI_API_KEY missing"), CloseEv(CLOSE_INTERNAL)>>
  /\ BatchCredentialMissing
       => /\ sent[1] = AcceptEv
          /\ sent[2] = ErrorEv(ERR_NO_KEY)
          /\ Count("error") = 1
          /\ Count("final") = 0
          /\ \E i \in Positions("reply") : i > 2 /\ sent[i].text = Apology
          /\ Count("reply") = 1
          /\ LastSent = CloseEv(CLOSE_NORMAL)

\* after a session of this process failed on the missing credential, a
\* later batch session of the same process is served to its normal close
C10_Witness ==
  /\ cred_failed
  /\ BatchCredentialMissing
  /\ Count("reply") = 1
  /\ LastSent = CloseEv(CLOSE_NORMAL)

\* C11: in a streaming session a disconnect received while Listening is an
\* end of input, not an error: the only `error` events of the session are the
\* vendor's own, the handler goes on through the reply and synthesis stages,
\* and the session ends with one `reply` and the close code 1000.
C11_DisconnectIsEndOfInput ==
  (path = STREAM_PATH /\ ended_by = "disconnect")
    => /\ \A i \in Positions("error") : sent[i].info \in VendorErrors
       /\ pc \in {"wait_fake", "flush", "model", "reply", "tts", "audio", "closed"}
       /\ pc = "closed"
            => /\ Count("reply") = 1
               /\ tts_calls = (IF CallsTTS(reply) THEN 1 ELSE 0)
               /\ LastSent = CloseEv(CLOSE_NORMAL)

\* a streaming session closed after a disconnect, with its reply synthesized
\* and the audio sent
C11_Witness ==
  /\ path = STREAM_PATH
  /\ ended_by = "disconnect"
  /\ pc = "closed"
  /\ Count("reply") = 1
  /\ Positions("binary") # {}
  /\ LastSent = CloseEv(CLOSE_NORMAL)

\* C12: when the Listening loop of a streaming session is left after a
\* partial transcript was produced and no final transcript exists, the reply
\* is generated from the partial transcript, not from an empty transcript:
\* the `reply` event carries text.
C12_PartialUsedForReply ==
  \A i \in Positions("reply") :
    (path = STREAM_PATH
       /\ Positions("final") = {}
       /\ \E j \in Positions("partial") : j < i /\ sent[j].text # << >>)
      => sent[i].text # << >>

\* the Listening loop of a streaming session
Listening == path = STREAM_PATH /\ pc \in {"drain", "receive"}

\* C13: under fair scheduling an accepted streaming session is closed once
\* the client has sent a stop/end frame, has disconnected, or receive() has
\* failed.
C13_EndOfInputCloses ==
  (path = STREAM_PATH /\ (ended_by # "" \/ event = "failed")) ~> (pc = "closed")

\* C14: under fair scheduling a provider event that is on the queue while
\* the session is Listening is eventually taken from the queue and sent,
\* whether or not the client sends a further frame.
C14_QueuedEventDelivered == (Listening /\ outbound # << >>) ~> (outbound = << >>)

\* the messages only the queue carries: transcripts, the vendor's errors and
\* the fallback notice
ProviderEvent(e) ==
  \/ e.type \in {"partial", "final"}
  \/ e.type = "error" /\ e.info \in VendorErrors
  \/ e.type = "debug" /\ e.info = "stt_fallback"

\* the messages put on the queue that are no longer on it
Dequeued == SubSeq(enqueued, 1, Len(enqueued) - Len(outbound))

\* C15: in a streaming session the provider events sent to the client are the
\* messages taken from the queue, in the order in which they were put on it,
\* each one once; a message still on the queue has not been sent.
C15_QueueOrderKept ==
  path = STREAM_PATH
    => /\ Dequeued \o outbound = enqueued
       /\ SelectSeq(sent, ProviderEvent) = SelectSeq(Dequeued, ProviderEvent)

\* two different provider events were relayed and a third message is still
\* on the queue
C15_Witness ==
  /\ path = STREAM_PATH
  /\ Len(SelectSeq(sent, ProviderEvent)) >= 2
  /\ \E i, j \in DOMAIN sent : i < j /\ ProviderEvent(sent[i]) /\ ProviderEvent(sent[j]) /\ sent[i] # sent[j]
  /\ outbound # << >>

\* the text of the last `final` event sent in this session
LastFinalText ==
  LET last == CHOOSE i \in Positions("final") : \A j \in Positions("final") : j <= i
  IN  sent[last].text

\* C16: the transcript a streaming session hands to the Reply adapter is the
\* normalizer's output for the final transcript, whether the `final` message
\* was drained while Listening or in the flush after the loop.
C16_ReplyInputNormalized ==
  (path = STREAM_PATH /\ model_calls > 0)
    => SessionTranscript = normalize_transcript(LastFinalText)

\* C17: once the vendor has signalled a deprecated model, the fallback flag
\* stays set for the rest of the session, every binary frame received from
\* then on is put on the simulator's queue and none is passed to the vendor's
\* transcriber; the next session starts without the fallback.
C17_FallbackSticks ==
  [][/\ (fallback_to_fake /\ pc' # "connect")
          => (fallback_to_fake' /\ rt_audio' = rt_audio)
     /\ (fallback_to_fake /\ pc = "receive" /\ event' = "bytes")
          => (Len(audio_q') = Len(audio_q) + 1 /\ fake_task' # "none")
     /\ (pc' = "connect") => (~fallback_to_fake' /\ ~fake_stt')]_vars

\* a session that passed a frame to the vendor, then fell back, then fed a
\* frame to the simulator
C17_Witness ==
  /\ fallback_to_fake
  /\ ~fake_stt
  /\ rt_audio = 1
  /\ frames = 1
  /\ fake_task # "none"

\* C18: a deprecated-model signal of the vendor is reported to the client by
\* a `debug` event (stage stt_fallback) and by no `error` event.
C18_DeprecationIsDebugOnly ==
  /\ fallback_to_fake => \E k \in DOMAIN enqueued : enqueued[k] = DebugEv("stt_fallback")
  /\ \A i \in DOMAIN sent : sent[i] # ErrorEv(ERR_DEPRECATED)

\* text frames that are no stop/end marker
Malformed == {"other_type", "bad_json", "no_brace"}

\* everything a session holds besides the handler's position and the frame
\* it has just received
StateBesidesFrame ==
  <<environ, imports, cred_failed, path, supplied, sent, outbound, enqueued, rt_audio,
    got_final_text, fake_stt, fallback_to_fake, rt, fake_task, audio_q, client_done,
    ended_by, built_count, ingested_ms, t_first_byte, t_first_partial, t_final_seen,
    flush_i, chunks, transcript, reply, adapter_out, audio_bytes, model_calls,
    tts_calls, frames, vendor_events>>

\* C19: a text frame that is not valid JSON, does not start with "{", or has
\* a type other than stop/end is ignored on both audio endpoints: the handler
\* stays in its receive loop, nothing is sent and no session state changes.
C19_MalformedFrameIgnored ==
  [][(pc \in {"receive", "b_receive"} /\ event' \in Malformed)
       => /\ pc' = (IF pc = "receive" THEN "drain" ELSE "b_receive")
          /\ StateBesidesFrame' = StateBesidesFrame]_vars

\* a streaming session that has received audio and a provider event and has
\* just ignored a malformed frame
C19_Witness ==
  /\ path = STREAM_PATH
  /\ pc = "drain"
  /\ event \in Malformed
  /\ t_first_byte
  /\ outbound # << >>

\* position of a variant in the order handle_conversation tries them
VariantIndex(v) == CHOOSE k \in 1..Len(HcVariants) : HcVariants[k] = v

\* the variant is set up in this process
Configured(v) ==
  CASE v = "cmd" -> hc.cfg.cmd [] v = "url" -> hc.cfg.url
    [] v = "shim" -> hc.cfg.shim [] v = "llm" -> hc.cfg.key

\* a call for a transcript with text has come back
HcAnswered == hc.pc = "done" /\ Strip(hc.transcript) # << >>

\* C20: for a non-empty transcript, handle_conversation returns the output of
\* the first variant, in the order local command, HTTP endpoint, in-process
\* function, hosted model, that produced non-empty text, every configured
\* variant before it having failed or produced nothing; it returns the empty
\* string only when every configured variant failed or produced nothing.
C20_FirstNonEmptyWins ==
  HcAnswered =>
    /\ ~hc.raised
    /\ hc.out # << >> =>
         \E v \in DOMAIN hc.res :
           /\ hc.res[v] = "text"
           /\ hc.out = VariantText(IF v = "shim" THEN ShimSource(hc.cfg) ELSE v)
           /\ \A w \in DOMAIN hc.res :
                (VariantIndex(w) < VariantIndex(v) /\ Configured(w))
                  => hc.res[w] \in {"fail", "empty"}
    /\ hc.out = << >> =>
         \A v \in DOMAIN hc.res : Configured(v) => hc.res[v] \in {"fail", "empty"}

\* C21: within one handle_conversation call each variant is executed at most
\* once; in particular the KLARVIA_MODEL_CMD command runs at most once per
\* call, also when it exits non-zero or times out.
C21_EachVariantOnce == \A v \in DOMAIN hc.runs : hc.runs[v] <= 1

\* the configured variants that come after the local command, in order
LaterConfigured == SelectSeq(Tail(HcVariants), Configured)

\* C22: when the KLARVIA_MODEL_CMD command fails (non-zero exit, timeout),
\* handle_conversation goes on to the next configured variant and the call
\* comes back without an exception.
C22_CmdFailureFallsThrough ==
  (hc.pc = "done" /\ hc.res.cmd = "fail") =>
    /\ ~hc.raised
    /\ LaterConfigured # << >> => hc.res[Head(LaterConfigured)] # "skip"

\* a /chat request with a text has been answered and handle_conversation has
\* been run on the same text
ChatCompared == chat.pc = "compared"

\* what the chain gives for a text: its reply, or the echo when it yields nothing
ChainReply(r, raised, text) == IF raised \/ r = << >> THEN EchoPrefix \o text ELSE r

\* C23: POST /chat answers a non-empty text with the reply handle_conversation
\* yields for that text (the echo when it yields nothing); a missing or empty
\* text is answered with status 400 and no variant is run.
C23_ChatUsesSameChain ==
  /\ ChatCompared =>
       (chat.status = HTTP_OK /\ chat.reply = ChainReply(chat.ref, chat.ref_raised, chat.text))
  /\ (chat.pc = "done" /\ chat.text = << >>) =>
       (chat.status = HTTP_BAD_REQUEST /\ \A v \in DOMAIN hc.runs : hc.world[v] = "unknown")

\* the TTS adapter was called in this session and gave no audio
SynthesisFailed == tts_calls > 0 /\ audio_bytes = << >>

\* the `reply` event with the session's reply text has been sent
ReplyStands == \E i \in Positions("reply") : sent[i].text = reply

\* C24: a synthesis failure is not fatal: when generate_voice raises or gives
\* no bytes, nothing is sent for it (no binary frame, no `error` event), the
\* `reply` already sent stands, and the session closes with code 1000.
C24_SynthesisFailureNonFatal ==
  [][/\ (pc \in {"tts", "b_tts"} /\ pc' # pc /\ SynthesisFailed')
          => (sent' = sent /\ pc' \in {"audio", "b_audio"} /\ ReplyStands)
     /\ (pc \in {"audio", "b_audio"} /\ pc' # pc /\ SynthesisFailed)
          => (/\ pc' = "closed"
              /\ sent' = sent \o <<CloseEv(CLOSE_NORMAL)>>
              /\ ReplyStands')]_vars

C24_Witness ==
  /\ pc = "closed"
  /\ SynthesisFailed
  /\ ReplyStands
  /\ Count("binary") = 0
  /\ LastSent = CloseEv(CLOSE_NORMAL)

\* the session is over and its synthesis gave audio / gave none
SynthesisSucceeded == audio_bytes # << >>

\* what has been sent after position i
SentAfter(i) == SubSeq(sent, i + 1, Len(sent))

RECURSIVE QueuedMs(_)
QueuedMs(q) == IF q = << >> THEN 0 ELSE bytes_to_ms(Head(q)) + QueuedMs(Tail(q))

\* milliseconds of audio the client has streamed to the simulator
StreamedMs == ingested_ms + QueuedMs(audio_q)

\* scenario B: the simulator is the session's STT, the client streamed 1500 ms
\* of audio and then sent a stop frame, and the post-stop flush is over
ScenarioB ==
  /\ path = STREAM_PATH
  /\ fake_stt
  /\ ended_by = "stop"
  /\ StreamedMs = Len(words) * per_word_ms
  /\ pc \in {"model", "reply", "tts", "audio", "closed"}

\* 'Hello Klarvia I have a headache'
FixedPhrase ==
  <<"H", "e", "l", "l", "o", " ", "K", "l", "a", "r", "v", "i", "a", " ", "I", " ",
    "h", "a", "v", "e", " ", "a", " ", "h", "e", "a", "d", "a", "c", "h", "e">>

ScenarioA ==
  /\ path = BATCH_PATH
  /\ Authorized
  /\ pc = "closed"
  /\ chunks > 0
  /\ (~imports.helpers \/ TranscribeRaises # "")

\* C27: in scenario A the session sends no `final`, sends the apology as its
\* `reply`, and sends a binary frame of fallback audio before closing.
C27_SilentBlobScenario ==
  ScenarioA =>
    /\ Count("final") = 0
    /\ \E i \in Positions("reply") : sent[i].text = Apology
    /\ Count("binary") = 1

\* C28: with two sessions running at once, the binary audio frame sent to
\* each session is the synthesis of that session's own reply, under every
\* interleaving of the TTS calls and the file reads.
C28_OwnAudioFrame ==
  \A s \in Sessions : handlers[s].pc = "closed" => handlers[s].frame = s

\* the messages of a request that come from another session
ForeignMessages(s) ==
  {i \in 1..Len(handlers[s].request) : handlers[s].request[i].session \notin {0, s}}

\* C29: the message history sent to the hosted model for a session holds only
\* the system prompt and messages of that same session.
C29_HistoryIsOwn == \A s \in Sessions : ForeignMessages(s) = {}

\* some stage record of the snapshot sent to session s was written by the
\* other session
ForeignRecord(s) ==
  \E st \in Stages : handlers[s].snapshot[st].start \notin {0, s}
                       \/ handlers[s].snapshot[st].end \notin {0, s}

\* C30: the Stage Timer store holds one record per stage name for the whole
\* process: a session's stage_start replaces the record whoever wrote it,
\* its stage_end writes the end whoever wrote the start, and the timings
\* snapshot a session is sent is the store as it is at that moment, the
\* other session's records included.
C30_StageRecordsInterleave ==
  [][\A s \in Sessions :
       /\ (handlers[s].pc \in {"start", "model", "tts"} /\ handlers'[s].pc # handlers[s].pc)
            => \E st \in Stages :
                 /\ pipeline_state'[st] = [start |-> s, end |-> 0]
                 /\ \A other \in Stages \ {st} : pipeline_state'[other] = pipeline_state[other]
       /\ (handlers[s].pc \in {"stt", "model_end", "tts_end"} /\ handlers'[s].pc # handlers[s].pc)
            => \E st \in Stages :
                 pipeline_state' = [pipeline_state EXCEPT ![st].end = s]
       /\ (handlers[s].pc = "timings" /\ handlers'[s].pc # handlers[s].pc)
            => handlers'[s].snapshot = pipeline_state]_vars

\* a session was sent a snapshot holding a record of the other session, and a
\* stage record whose start and end come from different sessions exists
C30_Witness ==
  /\ \E s \in Sessions : handlers[s].pc = "closed" /\ ForeignRecord(s)
  /\ \E st \in Stages : pipeline_state[st].start # 0 /\ pipeline_state[st].end \notin {0, pipeline_state[st].start}

(***************************************************************************)
(* The transcript normalizer                                               *)
(***************************************************************************)
\* C31: normalize_transcript is idempotent: normalizing a text it returned
\* returns that text again.
C31_NormalizeIdempotent == nt.pc = "twice" => nt.z = nt.y

\* a text with two whole-word variants, normalized twice
C31_Witness ==
  /\ nt.pc = "twice"
  /\ \E i, j \in 1..Len(nt.x) :
       /\ i < j
       /\ MatchAt(nt.x, variants[1], i)
       /\ MatchAt(nt.x, variants[1], j)
  /\ nt.y # nt.x

\* index of the last character of the word that starts at i
RECURSIVE WordEnd(_, _)
WordEnd(t, i) ==
  IF i + 1 <= Len(t) /\ IsWordChar(t[i + 1]) THEN WordEnd(t, i + 1) ELSE i

LowerText(w) == [k \in 1..Len(w) |-> Lower(w[k])]

IsVariant(w) == \E k \in 1..Len(variants) : LowerText(w) = variants[k]

\* the text word by word: a word that is a variant becomes "Klarvia", every
\* other word and every character between words stays
RECURSIVE WholeWordsReplaced(_, _)
WholeWordsReplaced(t, i) ==
  IF i > Len(t) THEN << >>
  ELSE IF IsWordChar(t[i])
       THEN LET j == WordEnd(t, i)
                w == SubSeq(t, i, j)
            IN  (IF IsVariant(w) THEN Canonical ELSE w) \o WholeWordsReplaced(t, j + 1)
       ELSE <<t[i]>> \o WholeWordsReplaced(t, i + 1)

\* C32: normalize_transcript replaces every whole-word occurrence of a variant,
\* in any case, by "Klarvia" and changes nothing else: a variant inside a
\* longer word stays, other words stay, the empty text is returned as it is.
C32_WholeWordVariantsReplaced ==
  nt.pc # "given" => nt.y = WholeWordsReplaced(nt.x, 1)

\* a text holding a variant as a whole word and a variant inside a longer word
C32_Witness ==
  /\ nt.pc = "once"
  /\ \E i \in 1..Len(nt.x) : \E k \in 1..Len(variants) : MatchAt(nt.x, variants[k], i)
  /\ \E i \in 1..Len(nt.x) : \E k \in 1..Len(variants) :
       /\ i + Len(variants[k]) - 1 <= Len(nt.x)
       /\ LowerText(SubSeq(nt.x, i, i + Len(variants[k]) - 1)) = variants[k]
       /\ ~MatchAt(nt.x, variants[k], i)
       /\ SubSeq(nt.y, i, i + Len(variants[k]) - 1) = SubSeq(nt.x, i, i + Len(variants[k]) - 1)

(***************************************************************************)
(* The Stage Timer                                                         *)
(***************************************************************************)
\* C33: no stage_start, stage_end or debug_report call raises; a stage_end
\* stores under its name the success flag and the message it was given, and
\* when no start stood under the name the record's start and duration are
\* null.
C33_EndWithoutStart ==
  /\ ~timer.raised
  /\ timer.call = "end" =>
       LET rec == StoreGet(timer.store, timer.name)
       IN  /\ rec # Null
           /\ rec.end = timer.returned
           /\ rec.success = timer.success
           /\ rec.msg = timer.msg
           /\ RecGetStart(timer.prior) = Null =>
                rec.start = Null /\ rec.duration = Null

\* a failed stage_end with a message, for a name nothing was stored under
C33_Witness ==
  /\ timer.call = "end"
  /\ timer.prior = Null
  /\ timer.success = <<FALSE>>
  /\ timer.msg # Null
  /\ StoreGet(timer.store, timer.name).duration = Null

\* the items stored under a name
ItemsOf(store, key) == {item \in store : item[1] = key}

\* C34: the store holds at most one record per stage name; stage_start puts
\* under its name a record with only the start set, whatever stood there;
\* stage_start and stage_end leave the records of the other names as they were.
C34_KeyedByStageName ==
  [][/\ \A key \in TimerNames : Cardinality(ItemsOf(timer'.store, key)) <= 1
     /\ timer'.call = "start" =>
          ItemsOf(timer'.store, timer'.name) = {<<timer'.name, StartRecord(timer'.returned[1])>>}
     /\ timer'.call \in {"start", "end"} =>
          \A other \in TimerNames \ {timer'.name} :
            ItemsOf(timer'.store, other) = ItemsOf(timer.store, other)]_vars

\* stage_start on a name that held a finished record, the other name holding one too
C34_Witness ==
  /\ timer.call = "start"
  /\ timer.prior # Null
  /\ timer.prior.end # Null
  /\ StoreGet(timer.store, timer.name) = StartRecord(timer.clock)
  /\ \E other \in TimerNames \ {timer.name} : Has(timer.store, other)

(***************************************************************************)
(* Close frames                                                            *)
(***************************************************************************)
\* the handler of this session has returned or an exception left it
SessionOver == pc \in {"closed", "crashed"}

\* the close code that names the session's outcome
OutcomeCode ==
  IF supplied # ws_token THEN CLOSE_UNAUTHORIZED
  ELSE IF path \notin {STREAM_PATH, BATCH_PATH} THEN CLOSE_UNKNOWN_PATH
  ELSE IF StreamSetupFailed THEN CLOSE_INTERNAL
  ELSE CLOSE_NORMAL

\* C35: every WebSocket session ends with exactly one close frame, its last
\* outbound frame, whose code names the outcome: 4401 token mismatch, 1008
\* unknown path, 1011 STT setup failure of a streaming session, 1000 otherwise.
C35_OneCloseFrameLast ==
  /\ \A i \in Positions("close") : i = Len(sent)
  /\ SessionOver => /\ Count("close") = 1
                    /\ LastSent = CloseEv(OutcomeCode)

\* the same statement for the sessions whose handler returned
C35_ReturnedSessions ==
  /\ \A i \in Positions("close") : i = Len(sent)
  /\ pc = "closed" => /\ Count("close") = 1
                      /\ LastSent = CloseEv(OutcomeCode)

(***************************************************************************)
(* ai/server.py: /ws/audio                                                 *)
(***************************************************************************)
SrvLast == srv.sent[Len(srv.sent)]

\* the handler is through with an audio message
SrvTurnOver == srv.msg = "audio" /\ srv.pc \in {"receive", "closed"}

\* C36: on /ws/audio of ai/server.py every base64 audio message of an
\* authorized client is answered by a binary frame or by 'no-speech'; a
\* binary frame follows the transcript and the reply of its turn; the
\* connection stays open for the next message.
C36_AudioAnswered ==
  /\ SrvTurnOver =>
       /\ srv.pc = "receive"
       /\ SrvLast.turn = srv.turn
       /\ SrvLast.kind \in {"binary", "status: no-speech"}
  /\ \A i \in 1..Len(srv.sent) :
       srv.sent[i].kind = "binary" =>
         /\ i > 2
         /\ srv.sent[i - 2] = [kind |-> "transcript", turn |-> srv.sent[i].turn]
         /\ srv.sent[i - 1] = [kind |-> "reply", turn |-> srv.sent[i].turn]

\* the same statement for the turns in which get_reply returned and
\* text_to_speech gave audio
C36_UnlessAdapterFailed ==
  (\A i \in 1..Len(srv.sent) : srv.sent[i].kind \notin {"error: tts-failed", "close 1011"})
    => C36_AudioAnswered

(***************************************************************************)
(* The offline simulator                                                   *)
(***************************************************************************)
\* the partial events put on the queue in this session, in order
PartialsPut == SelectSeq(enqueued, LAMBDA e : e.type = "partial")

FinalsPut == {i \in 1..Len(enqueued) : enqueued[i].type = "final"}

\* what the simulator has revealed is in step with the audio it ingested; in
\* a session where only the simulator puts events, the partials are growing
\* prefixes of the phrase and a final is the whole phrase, put last
Paced ==
  /\ built_count <= Min(ingested_ms \div per_word_ms, Len(words))
  /\ vendor_events = 0 =>
       /\ \A i \in 1..Len(PartialsPut) :
            \E k \in 1..Len(words) : PartialsPut[i].text = JoinWords(words, k)
       /\ \A i \in 1..(Len(PartialsPut) - 1) :
            Len(PartialsPut[i].text) < Len(PartialsPut[i + 1].text)
       /\ \A i \in FinalsPut :
            /\ i = Len(enqueued)
            /\ enqueued[i].text = JoinWords(words, Len(words))
            /\ built_count = Len(words)

\* C37: the simulator never reveals more than min(floor(ingested_ms / 250), 6)
\* words; its partials are strictly longer prefixes of the six-word phrase;
\* it puts `final` only when all six words are unlocked and the client is
\* done or idle (no bytes ingested in that iteration); the final is the whole
\* phrase and nothing is put after it.
C37_SimulatorPacing ==
  [][/\ Paced'
     /\ (vendor_events' = 0 /\ FinalsPut = {} /\ FinalsPut' # {})
          => (client_done \/ ingested_ms' = ingested_ms)]_vars

\* a simulator session that put two partials and then the final
C37_Witness ==
  /\ vendor_events = 0
  /\ fake_task = "done"
  /\ Len(PartialsPut) >= 2
  /\ FinalsPut # {}
  /\ ingested_ms >= Len(words) * per_word_ms

(***************************************************************************)
(* End of a streaming session                                              *)
(***************************************************************************)
\* this step sends the session's `reply` event
ReplySent == Positions("reply") = {} /\ Positions("reply")' # {}

\* C38: every event put on the queue of a streaming session before the
\* `reply` event is emitted has been sent to the client by then.
C38_NoProviderEventLost ==
  [][(path = STREAM_PATH /\ ReplySent)
       => \A i \in 1..Len(enqueued) : \E j \in 1..Len(sent) : sent[j] = enqueued[i]]_vars

\* the same statement for the events put on the queue before the post-stop
\* flush was left
C38_FlushedBeforeModel ==
  [][(path = STREAM_PATH /\ pc = "flush" /\ pc' = "model")
       => \A i \in 1..Len(enqueued) : \E j \in 1..Len(sent) : sent[j] = enqueued[i]]_vars

\* C39: in a streaming session the text of the `final` event sent to the
\* client is the final transcript the coordinator keeps, the one it hands to
\* the Reply adapter and echoes.
C39_FinalEventIsKeptTranscript ==
  (path = STREAM_PATH /\ Positions("reply") # {})
    => \A i \in Positions("final") : sent[i].text = got_final_text

\* the same statement for the sessions with one `final` event whose text
\* the normalizer leaves as it is
C39_UnlessNormalized ==
  (path = STREAM_PATH /\ Positions("reply") # {} /\ Count("final") = 1
     /\ normalize_transcript(LastFinalText) = LastFinalText)
    => \A i \in Positions("final") : sent[i].text = got_final_text

(***************************************************************************)
(* Batch endpoint without audio                                            *)
(***************************************************************************)
\* C40: a batch session whose input ends (stop/end frame or disconnect)
\* before any binary frame sends exactly one `error` event ('No audio
\* received') and closes with 1000; no adapter is invoked and no `final` or
\* `reply` event is sent.
C40_NoAudioReceived ==
  (path = BATCH_PATH /\ Authorized /\ chunks = 0)
    => /\ pc \in {"route", "b_receive", "b_process", "closed"}
       /\ model_calls = 0
       /\ tts_calls = 0
       /\ transcript = << >>
       /\ pc = "closed" =>
            sent = <<AcceptEv, ErrorEv("No audio received"), CloseEv(CLOSE_NORMAL)>>

\* a batch session closed without having buffered a frame
C40_Witness ==
  /\ path = BATCH_PATH
  /\ Authorized
  /\ chunks = 0
  /\ pc = "closed"
  /\ Count("error") = 1
  /\ LastSent = CloseEv(CLOSE_NORMAL)

=============================================================================
